---------------------------- MODULE Spec2Model ----------------------------
(***************************************************************************)
(* Belt surface generator (src/Python/belt_surface_generator.py).          *)
(*                                                                         *)
(* Two specifications over one set of variables:                           *)
(*   SpecPlan  the control point planner as pure functions:                *)
(*             build_primary_control_points, then                          *)
(*             build_all_control_points, on inputs drawn from bounded      *)
(*             sets;                                                       *)
(*   Spec      one run of generate_belt_surface, stage by stage, the       *)
(*             geometry kernel's answers being nondeterministic choices.   *)
(*                                                                         *)
(* Numbers.  Floats are modelled as exact rationals on fixed grids:        *)
(*   positions A_position, B_position  =  n / PosUnit                      *)
(*   exit parameter                    =  n / ExitUnit                     *)
(*   param of a control point          =  n / ParamScale                   *)
(*   angle and magnitude values        =  n / ValueScale                   *)
(***************************************************************************)
EXTENDS Integers, Sequences, FiniteSets, TLC

(***************************************************************************)
(* Bounds of the model.                                                    *)
(***************************************************************************)
\* largest intermediate_sections tried by SpecPlan
MaxInter == 2
\* grid of A_position and B_position: position = n / PosUnit
PosUnit == 100
\* grid of the exit parameter: exit_param = n / ExitUnit
ExitUnit == 1250000

(***************************************************************************)
(* Program constants.                                                      *)
(***************************************************************************)
\* 1e-6, the closure tolerance, as its inverse
EpsInv == 1000000

(***************************************************************************)
(* Arithmetic helpers of the number representation.                        *)
(***************************************************************************)
Abs(x) == IF x < 0 THEN -x ELSE x

RECURSIVE Gcd(_, _)
Gcd(a, b) == IF b = 0 THEN a ELSE Gcd(b, a % b)

RECURSIVE LcmUpTo(_)
LcmUpTo(n) == IF n <= 1 THEN 1 ELSE (LcmUpTo(n - 1) * n) \div Gcd(LcmUpTo(n - 1), n)

RECURSIVE IPow(_, _)
IPow(b, e) == IF e = 0 THEN 1 ELSE b * IPow(b, e - 1)

\* every t = i/(n+1), n <= MaxInter, is a whole number of 1/TScale
TScale == LcmUpTo(MaxInter + 1)
\* param grid: products position * exit_param and fractions t of them are exact
ParamScale == PosUnit * ExitUnit * TScale
\* value grid: weights t and t^2 are exact
ValueScale == TScale * TScale

\* the float 1.0 as a param (0.0 is 0)
ParamOne == ParamScale

\* abs(x) < 1e-6 for a param difference x, without overflow:
\* |x| / ParamScale < 1 / EpsInv  <=>  |x| <= (ParamScale - 1) \div EpsInv
within_eps(x) == Abs(x) <= (ParamScale - 1) \div EpsInv

(***************************************************************************)
(* Sequences.                                                              *)
(***************************************************************************)
Range(s) == {s[i] : i \in 1..Len(s)}

\* position at which list.sort(key=param), a stable sort, puts cp into the
\* sorted list s: after every element whose param is not greater
InsertByParam(s, cp) ==
    LET k == Cardinality({i \in 1..Len(s) : s[i].param <= cp.param})
    IN  SubSeq(s, 1, k) \o <<cp>> \o SubSeq(s, k + 1, Len(s))

RECURSIVE SortPrefix(_, _)
SortPrefix(s, k) == IF k = 0 THEN <<>> ELSE InsertByParam(SortPrefix(s, k - 1), s[k])

\* list.sort(key=lambda cp: cp.param): stable, ascending
SortByParam(s) == SortPrefix(s, Len(s))

IsSortedByParam(s) == \A i \in 1..(Len(s) - 1) : s[i].param <= s[i + 1].param

RECURSIVE Flatten(_)
Flatten(ss) == IF ss = <<>> THEN <<>> ELSE Head(ss) \o Flatten(Tail(ss))

(***************************************************************************)
(* interpolate_value                                                       *)
(***************************************************************************)
\* bias = n / 1000.  1.0 / (2.0 * bias + 0.01) and 1.0 / (2.0 * (1.0 - bias) + 0.01)
\* are whole numbers for the biases of Biases
SourceExponent(bias) == 1000 \div (2 * bias + 10)
TargetExponent(bias) == 1000 \div (2 * (1000 - bias) + 10)

\* pow(t, ex) for t = tnum / TScale, as a number of 1/ValueScale
PowT(tnum, ex) == (IPow(tnum, ex) * ValueScale) \div IPow(TScale, ex)

\* variant: a bias of 0.5 is taken as favouring the target, with exponent 2
Weight_nolinear(tnum, bias) ==
    IF bias < 500 THEN PowT(tnum, SourceExponent(bias))
    ELSE IF bias > 500 THEN ValueScale - PowT(TScale - tnum, TargetExponent(bias))
    ELSE ValueScale - PowT(TScale - tnum, 2)

\* the weight of interpolate_value, as a number of 1/ValueScale
Weight(tnum, bias) ==
    IF bias < 500 THEN PowT(tnum, SourceExponent(bias))
    ELSE IF bias > 500 THEN ValueScale - PowT(TScale - tnum, TargetExponent(bias))
    ELSE PowT(tnum, 1)

\* val_start + (val_end - val_start) * weight, values as numbers of 1/ValueScale
interpolate_value(val_start, val_end, tnum, bias) ==
    val_start + ((val_end - val_start) * Weight(tnum, bias)) \div ValueScale

(***************************************************************************)
(* ControlPointDefinition and the planner                                  *)
(***************************************************************************)
\* Python's None, for a field that holds a point or a vector once resolved
None == [kind |-> "None"]

ControlPointDefinition(name, param, angle_dome, angle_bowl, mag_dome, mag_bowl) ==
    [name |-> name, param |-> param,
     angle_dome |-> angle_dome, angle_bowl |-> angle_bowl,
     mag_dome |-> mag_dome, mag_bowl |-> mag_bowl,
     dome_point |-> None, bowl_point |-> None,
     dome_vector |-> None, bowl_vector |-> None]

\* a primary point with the four values v of the user, scaled to ValueScale
Primary(name, param, v) ==
    ControlPointDefinition(name, param,
        v.angle_dome * ValueScale, v.angle_bowl * ValueScale,
        v.mag_dome * ValueScale, v.mag_bowl * ValueScale)

\* exit_param = ex / ExitUnit, position = pos / PosUnit, as params
ExitAsParam(ex) == ex * PosUnit * TScale
\* variant: the position as a fraction of the whole rail
A_param_unscaled(pos, ex) == pos * ExitUnit * TScale
A_param(pos, ex) == pos * ex * TScale
\* variant: the mirror as a reflection, measured back from 1.0
mirror_param_reflected(pos, ex) == ParamOne - (ExitUnit - ex) * pos * TScale
mirror_param(pos, ex) == ex * PosUnit * TScale + (ExitUnit - ex) * pos * TScale

\* build_primary_control_points: the points in the order they are appended,
\* then sorted by param
PrimaryAppended(ex, A_position, B_position, include_A, include_B, vals) ==
       << Primary("entry", 0, vals.entry) >>
    \o (IF include_A THEN << Primary("A", A_param(A_position, ex), vals.A) >> ELSE <<>>)
    \o (IF include_B THEN << Primary("B", A_param(B_position, ex), vals.B) >> ELSE <<>>)
    \o << Primary("exit", ExitAsParam(ex), vals.exit) >>
    \o (IF include_B THEN << Primary("B_mirror", mirror_param(B_position, ex), vals.B) >> ELSE <<>>)
    \o (IF include_A THEN << Primary("A_mirror", mirror_param(A_position, ex), vals.A) >> ELSE <<>>)

build_primary_control_points(ex, A_position, B_position, include_A, include_B, vals) ==
    SortByParam(PrimaryAppended(ex, A_position, B_position, include_A, include_B, vals))

\* the param of the i-th of n intermediates between cp1 and cp2
IntermediateParam(cp1, cp2, i, n) ==
    LET wrapping == cp2.param < cp1.param
        distance_to_1 == ParamOne - cp1.param
        raw == IF wrapping
               THEN cp1.param + (distance_to_1 \div (n + 1)) * i
               ELSE cp1.param + ((cp2.param - cp1.param) \div (n + 1)) * i
    IN  IF wrapping /\ raw > ParamOne THEN ParamOne
        ELSE IF wrapping /\ raw < cp1.param THEN cp1.param
        ELSE raw

\* variant: the values are interpolated from cp2 to cp1
build_intermediate_control_points_backwards(cp1, cp2, num_intermediates, bias) ==
    [i \in 1..num_intermediates |->
        LET tnum == (i * TScale) \div (num_intermediates + 1)
        IN  ControlPointDefinition(
                cp1.name \o "_to_" \o cp2.name \o "_" \o ToString(i),
                IntermediateParam(cp1, cp2, i, num_intermediates),
                interpolate_value(cp2.angle_dome, cp1.angle_dome, tnum, bias),
                interpolate_value(cp2.angle_bowl, cp1.angle_bowl, tnum, bias),
                interpolate_value(cp2.mag_dome, cp1.mag_dome, tnum, bias),
                interpolate_value(cp2.mag_bowl, cp1.mag_bowl, tnum, bias))]

\* build_intermediate_control_points
build_intermediate_control_points(cp1, cp2, num_intermediates, bias) ==
    [i \in 1..num_intermediates |->
        LET tnum == (i * TScale) \div (num_intermediates + 1)
        IN  ControlPointDefinition(
                cp1.name \o "_to_" \o cp2.name \o "_" \o ToString(i),
                IntermediateParam(cp1, cp2, i, num_intermediates),
                interpolate_value(cp1.angle_dome, cp2.angle_dome, tnum, bias),
                interpolate_value(cp1.angle_bowl, cp2.angle_bowl, tnum, bias),
                interpolate_value(cp1.mag_dome, cp2.mag_dome, tnum, bias),
                interpolate_value(cp1.mag_bowl, cp2.mag_bowl, tnum, bias))]

\* variant: the closing pair (last primary -> entry) gets no intermediates
MergeAndSort_nowrap(primary_cps, num_intermediates, bias) ==
    SortByParam(primary_cps \o Flatten(
        [i \in 1..(Len(primary_cps) - 1) |->
            build_intermediate_control_points(
                primary_cps[i], primary_cps[i + 1], num_intermediates, bias)]))

\* build_all_control_points up to its first sort: primaries, then the
\* intermediates of each consecutive pair (the last pair wraps), sorted
MergeAndSort(primary_cps, num_intermediates, bias) ==
    SortByParam(primary_cps \o Flatten(
        [i \in 1..Len(primary_cps) |->
            build_intermediate_control_points(
                primary_cps[i], primary_cps[(i % Len(primary_cps)) + 1],
                num_intermediates, bias)]))

\* variant: the closure point is never added
EnsureClosure_never(cps) == cps

\* variant: the closure point copies the last point of the list
EnsureClosure_from_last(cps) ==
    LET last_cp == cps[Len(cps)]
        has_closure == \E i \in 1..Len(cps) : within_eps(cps[i].param - ParamOne)
    IN  IF ~has_closure
        THEN SortByParam(Append(cps,
                ControlPointDefinition("closure", ParamOne,
                    last_cp.angle_dome, last_cp.angle_bowl,
                    last_cp.mag_dome, last_cp.mag_bowl)))
        ELSE cps

\* the closure step of build_all_control_points
EnsureClosure(cps) ==
    LET found == {i \in 1..Len(cps) : within_eps(cps[i].param)}
        first == CHOOSE i \in found : \A j \in found : i <= j
        entry_cp == cps[first]
        has_closure == \E i \in 1..Len(cps) : within_eps(cps[i].param - ParamOne)
    IN  IF found # {} /\ ~has_closure
        THEN SortByParam(Append(cps,
                ControlPointDefinition("closure", ParamOne,
                    entry_cp.angle_dome, entry_cp.angle_bowl,
                    entry_cp.mag_dome, entry_cp.mag_bowl)))
        ELSE cps

build_all_control_points(primary_cps, num_intermediates, bias) ==
    EnsureClosure(MergeAndSort(primary_cps, num_intermediates, bias))

(***************************************************************************)
(* Inputs                                                                  *)
(***************************************************************************)
\* A_position, B_position (0.0-1.0), as numbers of 1/PosUnit
Positions == {0, (33 * PosUnit) \div 100, (66 * PosUnit) \div 100, PosUnit}
\* exit parameters in [0,1], as numbers of 1/ExitUnit; ExitUnit - 1 is
\* closer to 1.0 than 1e-6
ExitParams == {0, (2 * ExitUnit) \div 5, ExitUnit \div 2, ExitUnit - 1, ExitUnit}
\* transition_bias, as numbers of 1/1000
Biases == {245, 500, 755}

\* the component's defaults: angles 0, magnitudes 0.5 (in 1/100)
DefaultVals ==
    LET d == [angle_dome |-> 0, angle_bowl |-> 0, mag_dome |-> 50, mag_bowl |-> 50]
    IN  [entry |-> d, A |-> d, B |-> d, exit |-> d]
\* four different profiles
DistinctVals ==
    [entry |-> [angle_dome |-> 10, angle_bowl |-> 20, mag_dome |-> 30, mag_bowl |-> 40],
     A     |-> [angle_dome |-> 15, angle_bowl |-> 25, mag_dome |-> 35, mag_bowl |-> 45],
     B     |-> [angle_dome |-> 50, angle_bowl |-> 60, mag_dome |-> 70, mag_bowl |-> 80],
     exit  |-> [angle_dome |-> 90, angle_bowl |-> 0,  mag_dome |-> 100, mag_bowl |-> 0]]
ValChoices == {DefaultVals, DistinctVals}

PlanInputs ==
    [A_position : Positions, B_position : Positions,
     include_A : BOOLEAN, include_B : BOOLEAN,
     vals : ValChoices,
     intermediate_sections : 0..MaxInter,
     transition_bias : Biases,
     rebuild_tolerance : {0}]

(***************************************************************************)
(* State                                                                   *)
(***************************************************************************)
VARIABLES
    pc,               \* the stage generate_belt_surface is about to run;
                      \* "done" after a return, "raised" after an exception
    inputs,           \* the scalar inputs of the run
    dome_rail,        \* dome_edge, then dome_rail
    bowl_rail,        \* bowl_edge, then bowl_rail
    dome_exit_param,  \* exit parameter of the dome rail, in 1/ExitUnit
    bowl_exit_param,  \* exit parameter of the bowl rail, in 1/ExitUnit
    exit_found_at,    \* for each rail, the rev of the rail its exit was located on
    primary_cps,      \* result of build_primary_control_points
    merged_cps,       \* all_cps of build_all_control_points after its first sort
    all_cps,          \* result of build_all_control_points, resolved in STEP 6
    idx,              \* position of the STEP 6 loop in all_cps
    cross_sections,   \* names of the control points whose bezier was built
    cross_sections_for_sweep,
    debug_curves,
    debug_vectors,
    belt_surface,     \* the surface returned: "unset" until a return
    warnings,         \* the warnings list
    calls,            \* kernel operations the run has made
    zero_distance_at, \* names of the control points whose dome-bowl distance
                      \* the kernel measured below the tolerance
    faults,           \* non-fatal abnormal kernel answers so far
    rebuild_args,     \* the arguments of belt_surface.Rebuild, <<>> before the call
    interp,           \* the call of interpolate_value evaluated in floating point
    yz,               \* the call of find_yz_plane_intersections under evaluation
    sticky,           \* sc.sticky of the batch-save component
    recomputes,       \* the recomputes of the batch-save component so far
    perp,             \* the call of get_perpendicular_to_trim under evaluation
    extraction        \* the call of extract_trim_curve under evaluation

\* the state of one run of generate_belt_surface
run_vars == <<pc, inputs, dome_rail, bowl_rail, dome_exit_param, bowl_exit_param,
              exit_found_at, primary_cps, merged_cps, all_cps, idx, cross_sections,
              cross_sections_for_sweep, debug_curves, debug_vectors, belt_surface,
              warnings, calls, zero_distance_at, faults, rebuild_args>>

\* the state of the functions and components checked on their own
aux_vars == <<interp, yz, sticky, recomputes, perp, extraction>>

vars == <<run_vars, aux_vars>>

rail_vars == <<dome_rail, bowl_rail, dome_exit_param, bowl_exit_param, exit_found_at>>
plan_vars == <<primary_cps, merged_cps, all_cps>>
curve_vars == <<cross_sections, cross_sections_for_sweep, debug_curves>>

MsgF(level, text, name, flags) ==
    [level |-> level, text |-> text, name |-> name, flags |-> flags]
Msg(level, text, name) == MsgF(level, text, name, <<>>)

\* return (None, warnings, debug_curves, debug_vectors) after appending msgs
ReturnNone(msgs) ==
    /\ warnings' = warnings \o msgs
    /\ belt_surface' = "None"
    /\ pc' = "done"

(***************************************************************************)
(* The geometry kernel's answers                                           *)
(***************************************************************************)
\* extract_trim_curve found no curve
NoCurve == [kind |-> "None"]
\* a curve's own domain before it is reparameterized: [0, 3]
NativeDomain == <<0, 3 * ExitUnit>>
UnitDomain == <<0, ExitUnit>>
\* start and end tangents projected to the XY plane; <<0, 1>> is
\* perpendicular to the other two
Dirs == {<<1, 0>>, <<-1, 0>>, <<0, 1>>}
DomeDirs == {<<1, 0>>}
Neg(v) == <<-v[1], -v[2]>>
Dot(v, w) == v[1] * w[1] + v[2] * w[2]

\* the curves extract_trim_curve can return
ExtractedCurves ==
    {[kind |-> "curve", closed |-> c, domain |-> NativeDomain, rev |-> 0,
      tangent_start |-> <<0, 0>>, tangent_end |-> <<0, 0>>, exit_at |-> 0] :
        c \in BOOLEAN}

\* exit parameters find_yz_plane_intersections can report once the rail
\* starts at its entry, in 1/ExitUnit
DomeExits == {(2 * ExitUnit) \div 5, ExitUnit}
BowlExits == {(2 * ExitUnit) \div 5}

\* curve.Reverse(): the curve runs the other way, its domain [a, b] becomes
\* [-b, -a], its start tangent is the reverse of its old end tangent
Reverse(rail) ==
    [rail EXCEPT !.domain = <<-rail.domain[2], -rail.domain[1]>>,
                 !.tangent_start = Neg(rail.tangent_end),
                 !.tangent_end = Neg(rail.tangent_start),
                 !.exit_at = ExitUnit - rail.exit_at,
                 !.rev = rail.rev + 1]

\* rail.Domain = rg.Interval(0.0, 1.0)
SetUnitDomain(rail) == [rail EXCEPT !.domain = UnitDomain]

(***************************************************************************)
(* STEP 1: extract the edge curves                                         *)
(***************************************************************************)
Step1_Extract ==
    /\ pc = "step1"
    /\ \E d \in ExtractedCurves \cup {NoCurve}, b \in ExtractedCurves \cup {NoCurve},
          no_faces \in BOOLEAN, dome_length_zero \in BOOLEAN :
          /\ dome_rail' = d
          /\ bowl_rail' = b
          /\ calls' = calls \cup {"extract"}
          /\ IF no_faces
             THEN \* brep_surface.Faces[0] raises IndexError in extract_trim_curve
                  /\ d = NoCurve /\ b = NoCurve /\ ~dome_length_zero
                  /\ pc' = "raised"
                  /\ UNCHANGED <<warnings, belt_surface>>
             ELSE IF d = NoCurve \/ b = NoCurve
             THEN /\ ~dome_length_zero
                  /\ ReturnNone(<< Msg("ERROR", "Could not extract trim curves from surfaces", "") >>)
             ELSE IF dome_length_zero
             THEN \* bowl_edge_length/dome_edge_length raises ZeroDivisionError
                  /\ warnings' = warnings \o
                        << Msg("DEBUG", "Dome edge length", ""),
                           Msg("DEBUG", "Bowl edge length", "") >>
                  /\ pc' = "raised"
                  /\ UNCHANGED belt_surface
             ELSE /\ warnings' = warnings \o
                        << Msg("DEBUG", "Dome edge length", ""),
                           Msg("DEBUG", "Bowl edge length", ""),
                           Msg("DEBUG", "Length ratio (bowl/dome)", "") >>
                  /\ pc' = "step2"
                  /\ UNCHANGED belt_surface
    /\ UNCHANGED <<aux_vars, rebuild_args, inputs, dome_exit_param, bowl_exit_param, exit_found_at, plan_vars,
                   idx, curve_vars, debug_vectors, zero_distance_at, faults>>

(***************************************************************************)
(* STEP 2: entry points on the rails                                       *)
(***************************************************************************)
Step2_FindEntries ==
    /\ pc = "step2"
    /\ \E dome_found \in BOOLEAN, bowl_found \in BOOLEAN :
          /\ calls' = calls \cup {"intersect"}
          /\ IF ~dome_found \/ ~bowl_found
             THEN ReturnNone(<< Msg("ERROR", "Could not find YZ plane intersections", "") >>)
             ELSE /\ warnings' = warnings \o
                        << Msg("DEBUG", "Dome entry param", ""),
                           Msg("DEBUG", "Bowl entry param", "") >>
                  /\ pc' = "step3"
                  /\ UNCHANGED belt_surface
    /\ UNCHANGED <<aux_vars, rebuild_args, inputs, rail_vars, plan_vars, idx, curve_vars, debug_vectors, zero_distance_at, faults>>

(***************************************************************************)
(* STEP 3: reorder the rails to start at the entry, reparameterize to      *)
(* [0, 1], locate the exits                                                *)
(***************************************************************************)
\* reorder_curve_to_start, then Domain = [0, 1]: the geometry of the rail
\* as it is from here on.  A curve that is not closed, or whose seam could
\* not be moved, is returned as it is
Reordered(curve, tangent_start, tangent_end, exit_at) ==
    [curve EXCEPT !.domain = UnitDomain, !.rev = curve.rev + 1,
                  !.tangent_start = tangent_start, !.tangent_end = tangent_end,
                  !.exit_at = exit_at]

Step3_Reorder ==
    /\ pc = "step3"
    /\ \E dts \in DomeDirs, bts \in Dirs, bte \in Dirs,
          dex \in DomeExits, bex \in BowlExits,
          dome_found \in BOOLEAN, bowl_found \in BOOLEAN :
          \* a closed rail is tangent-continuous where it closes
          /\ bowl_rail.closed => bte = bts
          /\ dome_rail' = Reordered(dome_rail, dts, dts, dex)
          /\ bowl_rail' = Reordered(bowl_rail, bts, bte, bex)
          /\ calls' = calls \cup {"reorder", "reintersect"}
          /\ IF ~dome_found \/ ~bowl_found
             THEN /\ ReturnNone(<< Msg("ERROR",
                        "Could not find YZ plane exit intersections after reordering", "") >>)
                  /\ UNCHANGED <<dome_exit_param, bowl_exit_param, exit_found_at>>
             ELSE /\ dome_exit_param' = dome_rail'.exit_at
                  /\ bowl_exit_param' = bowl_rail'.exit_at
                  /\ exit_found_at' = [dome |-> dome_rail'.rev, bowl |-> bowl_rail'.rev]
                  /\ warnings' = warnings \o
                        << Msg("DEBUG", "Dome exit param (after reorder)", ""),
                           Msg("DEBUG", "Bowl exit param (after reorder)", "") >>
                  /\ pc' = "step3_5"
                  /\ UNCHANGED belt_surface
    /\ UNCHANGED <<aux_vars, rebuild_args, inputs, plan_vars, idx, curve_vars, debug_vectors, zero_distance_at, faults>>

(***************************************************************************)
(* STEP 3.5: align the curve directions                                    *)
(***************************************************************************)
Step3_5_Align ==
    /\ pc = "step3_5"
    /\ LET dot_product == Dot(dome_rail.tangent_start, bowl_rail.tangent_start) IN
       IF dot_product < 0
       THEN \E refound \in BOOLEAN :
              /\ bowl_rail' = SetUnitDomain(Reverse(bowl_rail))
              /\ calls' = calls \cup {"reverse", "reintersect_reversed"}
              /\ IF refound
                 THEN /\ bowl_exit_param' = bowl_rail'.exit_at
                      /\ exit_found_at' = [exit_found_at EXCEPT !.bowl = bowl_rail'.rev]
                      /\ warnings' = warnings \o
                            << Msg("DEBUG", "Bowl rail reversed to match dome rail direction", ""),
                               Msg("DEBUG", "Bowl exit param (after reverse)", ""),
                               Msg("DEBUG", "Rails reordered and reparameterized to [0, 1]", "") >>
                 ELSE /\ UNCHANGED <<bowl_exit_param, exit_found_at>>
                      /\ warnings' = warnings \o
                            << Msg("DEBUG", "Bowl rail reversed to match dome rail direction", ""),
                               Msg("DEBUG", "Rails reordered and reparameterized to [0, 1]", "") >>
       ELSE /\ warnings' = warnings \o
                  << Msg("DEBUG", "Rails already travel in same direction", ""),
                     Msg("DEBUG", "Rails reordered and reparameterized to [0, 1]", "") >>
            /\ UNCHANGED <<bowl_rail, bowl_exit_param, exit_found_at, calls>>
    /\ pc' = "step4"
    /\ UNCHANGED <<aux_vars, rebuild_args, inputs, dome_rail, dome_exit_param, plan_vars, idx, curve_vars,
                   debug_vectors, belt_surface, zero_distance_at, faults>>

(***************************************************************************)
(* STEP 4 and STEP 5 of generate_belt_surface: the planner                 *)
(***************************************************************************)
Step4_BuildPrimary ==
    /\ pc = "step4"
    /\ primary_cps' = build_primary_control_points(dome_exit_param,
            inputs.A_position, inputs.B_position,
            inputs.include_A, inputs.include_B, inputs.vals)
    /\ warnings' = Append(warnings, Msg("DEBUG", "Created primary control points", ""))
    /\ calls' = calls \cup {"plan_primary"}
    /\ pc' = "step5"
    /\ UNCHANGED <<aux_vars, rebuild_args, inputs, rail_vars, merged_cps, all_cps, idx, curve_vars,
                   debug_vectors, belt_surface, zero_distance_at, faults>>

Step5_BuildAll ==
    /\ pc = "step5"
    /\ merged_cps' = MergeAndSort(primary_cps, inputs.intermediate_sections,
                                  inputs.transition_bias)
    /\ all_cps' = build_all_control_points(primary_cps, inputs.intermediate_sections,
                                           inputs.transition_bias)
    /\ warnings' = warnings \o
            << Msg("DEBUG", "Total control points (with intermediates)", ""),
               Msg("DEBUG", "Control point param range", ""),
               Msg("DEBUG", "Closure point at 1.0 exists", "") >>
    /\ calls' = calls \cup {"plan_all"}
    /\ idx' = 1
    /\ pc' = "step6"
    /\ UNCHANGED <<aux_vars, rebuild_args, inputs, rail_vars, primary_cps, curve_vars, debug_vectors,
                   belt_surface, zero_distance_at, faults>>

(***************************************************************************)
(* STEP 6: points and vectors of each control point (one loop iteration)   *)
(***************************************************************************)
\* the largest number of non-fatal abnormal kernel answers in one run
MaxFaults == 1

Bit(b) == IF b THEN 1 ELSE 0

\* rail.PointAt(rail.Domain.ParameterAt(param)): on a closed rail the point
\* at 1.0 is the point at 0.0
PointOn(rail_name, rail, param) ==
    [kind |-> "point", rail |-> rail_name, rule |-> "at_param",
     at |-> IF rail.closed /\ param = ParamOne THEN 0 ELSE param]

\* bowl_rail.PointAt(t) for the t of bowl_rail.ClosestPoint(dome_point)
ClosestOnBowl(dome_point) ==
    [kind |-> "point", rail |-> "bowl", rule |-> "closest_to_dome", at |-> dome_point.at]

\* variant: the exit is projected from the dome like an ordinary point
LandmarkBowlPoint_exit_projected(cp) ==
    IF cp.name = "entry" THEN PointOn("bowl", bowl_rail, 0)
    ELSE IF cp.name = "exit" THEN ClosestOnBowl(PointOn("dome", dome_rail, cp.param))
    ELSE IF cp.name = "closure" THEN PointOn("bowl", bowl_rail, ParamOne)
    ELSE None

\* the bowl-side point of a landmark, None for the other names
LandmarkBowlPoint(cp) ==
    IF cp.name = "entry" THEN PointOn("bowl", bowl_rail, 0)
    ELSE IF cp.name = "exit" THEN PointOn("bowl", bowl_rail, ExitAsParam(bowl_exit_param))
    ELSE IF cp.name = "closure" THEN PointOn("bowl", bowl_rail, ParamOne)
    ELSE None

LandmarkMsgs(cp) ==
    IF cp.name = "entry"
    THEN << Msg("DEBUG", "Entry dome point", ""), Msg("DEBUG", "Entry bowl point", "") >>
    ELSE IF cp.name = "exit"
    THEN << Msg("DEBUG", "Exit dome point", ""), Msg("DEBUG", "Exit bowl point", "") >>
    ELSE IF cp.name = "closure"
    THEN << Msg("DEBUG", "Closure dome point", ""), Msg("DEBUG", "Closure bowl point", "") >>
    ELSE <<>>

\* variant: the fallback is scaled by the distance alone
OffsetVector_unscaled(perpendicular_ok, fallback, angle, mag, distance) ==
    IF perpendicular_ok
    THEN [kind |-> "vector", base |-> "perpendicular", angle |-> angle,
          factor |-> mag, distance |-> distance]
    ELSE [kind |-> "vector", base |-> fallback, angle |-> 0,
          factor |-> 100 * ValueScale, distance |-> distance]

\* the offset vector of one side: the perpendicular rotated by angle and
\* scaled by mag * distance, or the vertical fallback scaled by distance * 0.3
\* (0.3 on the value grid, where magnitudes are in 1/100)
OffsetVector(perpendicular_ok, fallback, angle, mag, distance) ==
    IF perpendicular_ok
    THEN [kind |-> "vector", base |-> "perpendicular", angle |-> angle,
          factor |-> mag, distance |-> distance]
    ELSE [kind |-> "vector", base |-> fallback, angle |-> 0,
          factor |-> 30 * ValueScale, distance |-> distance]

\* variant: the measured distance is used even when it is below the tolerance
ScalingDistance_unguarded(distance_zero) == "measured"

\* the distance both offset vectors are scaled by: 1.0 when the measured one
\* is below the tolerance
ScalingDistance(distance_zero) == IF distance_zero THEN "1.0" ELSE "measured"

Step6_Vectors ==
    /\ pc = "step6"
    /\ idx <= Len(all_cps)
    /\ LET cp == all_cps[idx]
           dome_point == PointOn("dome", dome_rail, cp.param)
           landmark == cp.name \in {"entry", "exit", "closure"}
       IN
       \E closest_ok \in BOOLEAN, distance_zero \in BOOLEAN,
          dome_ok \in BOOLEAN, bowl_ok \in BOOLEAN :
          /\ landmark => closest_ok
          /\ ~closest_ok => (~distance_zero /\ dome_ok /\ bowl_ok)
          /\ faults' = faults + Bit(~closest_ok) + Bit(distance_zero)
                              + Bit(~dome_ok) + Bit(~bowl_ok)
          /\ faults' <= MaxFaults
          /\ IF ~closest_ok
             THEN \* continue: the point keeps no bowl point and no vectors
                  /\ all_cps' = [all_cps EXCEPT ![idx].dome_point = dome_point]
                  /\ warnings' = Append(warnings,
                        Msg("ERROR", "Could not find closest bowl point for", cp.name))
                  /\ calls' = calls \cup {"closest_point"}
                  /\ UNCHANGED <<debug_vectors, zero_distance_at>>
             ELSE LET bowl_point == IF landmark THEN LandmarkBowlPoint(cp)
                                    ELSE ClosestOnBowl(dome_point)
                      distance == ScalingDistance(distance_zero)
                  IN
                  /\ all_cps' = [all_cps EXCEPT
                        ![idx].dome_point = dome_point,
                        ![idx].bowl_point = bowl_point,
                        ![idx].dome_vector =
                            OffsetVector(dome_ok, "up", cp.angle_dome, cp.mag_dome, distance),
                        ![idx].bowl_vector =
                            OffsetVector(bowl_ok, "down", cp.angle_bowl, cp.mag_bowl, distance)]
                  /\ warnings' = warnings
                        \o LandmarkMsgs(cp)
                        \o (IF distance_zero
                            THEN << Msg("WARNING", "Zero distance at", cp.name) >> ELSE <<>>)
                        \o (IF dome_ok THEN <<>>
                            ELSE << Msg("WARNING", "Could not calculate dome vector for", cp.name) >>)
                        \o (IF bowl_ok THEN <<>>
                            ELSE << Msg("WARNING", "Could not calculate bowl vector for", cp.name) >>)
                  /\ calls' = calls \cup {"perpendicular"}
                                    \cup (IF landmark THEN {} ELSE {"closest_point"})
                  /\ debug_vectors' = debug_vectors \o << cp.name, cp.name >>
                  /\ zero_distance_at' = IF distance_zero THEN zero_distance_at \cup {cp.name}
                                         ELSE zero_distance_at
    /\ idx' = idx + 1
    /\ UNCHANGED <<aux_vars, rebuild_args, pc, inputs, rail_vars, primary_cps, merged_cps, curve_vars, belt_surface>>

(***************************************************************************)
(* STEP 7: the bezier cross-sections, and the duplicate closure check      *)
(***************************************************************************)
\* the control points STEP 7 builds a curve for, in list order
Buildable(cps) ==
    SelectSeq(cps, LAMBDA cp : /\ cp.dome_point # None /\ cp.bowl_point # None
                               /\ cp.dome_vector # None /\ cp.bowl_vector # None)

NamesOf(cps) == [i \in 1..Len(cps) |-> cps[i].name]

\* variant: the first cross-section is dropped instead of the last
ForSweep_drop_first(sections, duplicate) ==
    IF Len(sections) > 1 /\ duplicate THEN SubSeq(sections, 2, Len(sections))
    ELSE sections

\* cross_sections[:-1] when the first and last start points are closer than
\* ten times the tolerance
ForSweep(sections, duplicate) ==
    IF Len(sections) > 1 /\ duplicate THEN SubSeq(sections, 1, Len(sections) - 1)
    ELSE sections

\* variant: an invalid bezier is reported and left out, the run goes on
InvalidBezier_skipped(buildable, invalid) ==
    /\ cross_sections' = NamesOf(SubSeq(buildable, 1, invalid - 1)
                                 \o SubSeq(buildable, invalid + 1, Len(buildable)))
    /\ debug_curves' = cross_sections'
    /\ cross_sections_for_sweep' = cross_sections'
    /\ warnings' = Append(warnings, Msg("ERROR", "Invalid bezier curve at", buildable[invalid].name))
    /\ pc' = "step8"
    /\ UNCHANGED <<belt_surface, faults>>

\* the bezier of buildable[invalid] is not valid: the curves built before it
\* are kept in debug_curves and the run returns
InvalidBezier(buildable, invalid) ==
    /\ cross_sections' = NamesOf(SubSeq(buildable, 1, invalid - 1))
    /\ debug_curves' = cross_sections'
    /\ ReturnNone(<< Msg("ERROR", "Invalid bezier curve at", buildable[invalid].name) >>)
    /\ UNCHANGED <<cross_sections_for_sweep, faults>>

Step7_CrossSections ==
    /\ pc = "step6"
    /\ idx > Len(all_cps)
    /\ LET buildable == Buildable(all_cps) IN
       \* invalid = 0: every bezier is valid; else the first invalid one
       \E invalid \in 0..Len(buildable), near \in BOOLEAN :
          /\ calls' = calls \cup {"bezier"}
          /\ IF invalid > 0
             THEN /\ ~near
                  /\ InvalidBezier(buildable, invalid)
             ELSE LET first_start == buildable[1].dome_point
                      last_start == buildable[Len(buildable)].dome_point
                      same == first_start = last_start
                  IN
                  \* different points of the rail closer than ten times the
                  \* tolerance: an abnormal answer
                  /\ near => (Len(buildable) > 1 /\ ~same)
                  /\ faults' = faults + Bit(near)
                  /\ faults' <= MaxFaults
                  /\ cross_sections' = NamesOf(buildable)
                  /\ debug_curves' = cross_sections'
                  /\ cross_sections_for_sweep' = ForSweep(cross_sections', same \/ near)
                  /\ warnings' = warnings
                        \o << Msg("DEBUG", "Created cross-section curves", "") >>
                        \o (IF Len(buildable) > 1
                            THEN IF same \/ near
                                 THEN << Msg("DEBUG", "Removed duplicate closure curve", "") >>
                                 ELSE << Msg("DEBUG", "No duplicate detected", "") >>
                            ELSE <<>>)
                  /\ pc' = "step8"
                  /\ UNCHANGED belt_surface
    /\ UNCHANGED <<aux_vars, rebuild_args, inputs, rail_vars, plan_vars, idx, debug_vectors, zero_distance_at>>

(***************************************************************************)
(* STEP 8: sweep 2 rails                                                   *)
(***************************************************************************)
SweepOutcomes == {"no_result", "no_faces", "no_nurbs_surface", "surface"}

\* the diagnostics after "Sweep 2 Rails failed"
SweepDiagnostics(dome_valid, bowl_valid) ==
    << Msg("ERROR", "Sweep 2 Rails failed", ""),
       MsgF("DEBUG", "Rail 1 IsValid, IsClosed", "", <<dome_valid, dome_rail.closed>>),
       MsgF("DEBUG", "Rail 2 IsValid, IsClosed", "", <<bowl_valid, bowl_rail.closed>>),
       Msg("DEBUG", "Number of cross-sections used", ""),
       MsgF("DEBUG", "First section valid", "",
            IF cross_sections_for_sweep # <<>> THEN <<TRUE>> ELSE <<>>),
       MsgF("DEBUG", "Last section valid", "",
            IF cross_sections_for_sweep # <<>> THEN <<TRUE>> ELSE <<>>) >>

Step8_Sweep ==
    /\ pc = "step8"
    /\ \E outcome \in SweepOutcomes, dome_valid \in BOOLEAN, bowl_valid \in BOOLEAN :
          /\ calls' = calls \cup {"sweep"}
          /\ outcome # "no_result" => (dome_valid /\ bowl_valid)
          /\ IF outcome = "no_result"
             THEN ReturnNone(SweepDiagnostics(dome_valid, bowl_valid))
             ELSE IF outcome = "no_faces"
             THEN ReturnNone(<< Msg("ERROR", "Sweep result has no faces", "") >>)
             ELSE IF outcome = "no_nurbs_surface"
             THEN ReturnNone(<< Msg("ERROR", "Failed to extract NURBS surface from sweep", "") >>)
             ELSE /\ belt_surface' = "swept"
                  /\ warnings' = Append(warnings, Msg("SUCCESS", "Surface created", ""))
                  /\ pc' = "step9"
    /\ UNCHANGED <<aux_vars, rebuild_args, inputs, rail_vars, plan_vars, idx, curve_vars, debug_vectors, zero_distance_at, faults>>

(***************************************************************************)
(* STEP 9: optional rebuild, and the return                                *)
(***************************************************************************)
RebuildOutcomes == {"rebuilt", "nothing", "raises"}

\* belt_surface.Points.CountU and CountV of the swept surface
PointCounts == {4, 5}

\* Rebuild(3, 3, int(num_u_pts * 1.5), int(num_v_pts * 1.5))
RebuildArguments(num_u_pts, num_v_pts) ==
    <<3, 3, (num_u_pts * 3) \div 2, (num_v_pts * 3) \div 2>>

\* variant: a rebuild that gives nothing loses the surface
SurfaceAfterRebuild_dropped(outcome, surface) ==
    IF outcome = "rebuilt" THEN "rebuilt" ELSE "None"

\* belt_surface after the try block: replaced only by a rebuilt surface
SurfaceAfterRebuild(outcome, surface) ==
    IF outcome = "rebuilt" THEN "rebuilt" ELSE surface

Step9_Rebuild ==
    /\ pc = "step9"
    /\ IF inputs.rebuild_tolerance > 0
       THEN \E outcome \in RebuildOutcomes, num_u_pts \in PointCounts, num_v_pts \in PointCounts :
              /\ calls' = calls \cup {"rebuild"}
              /\ rebuild_args' = RebuildArguments(num_u_pts, num_v_pts)
              /\ belt_surface' = SurfaceAfterRebuild(outcome, belt_surface)
              /\ warnings' = warnings \o
                    (IF outcome = "rebuilt"
                     THEN << Msg("DEBUG", "Surface rebuilt successfully", "") >>
                     ELSE IF outcome = "raises"
                     THEN << Msg("WARNING", "Surface rebuild failed", "") >>
                     ELSE <<>>)
       ELSE UNCHANGED <<calls, belt_surface, warnings, rebuild_args>>
    /\ pc' = "done"
    /\ UNCHANGED <<aux_vars, inputs, rail_vars, plan_vars, idx, curve_vars, debug_vectors, zero_distance_at, faults>>

(***************************************************************************)
(* State outside a run of generate_belt_surface                            *)
(***************************************************************************)
\* no run of generate_belt_surface is under way
RunIdle ==
    /\ pc = "idle"
    /\ inputs = [kind |-> "None"]
    /\ dome_rail = NoCurve
    /\ bowl_rail = NoCurve
    /\ dome_exit_param = 0
    /\ bowl_exit_param = 0
    /\ exit_found_at = [dome |-> 0, bowl |-> 0]
    /\ primary_cps = <<>>
    /\ merged_cps = <<>>
    /\ all_cps = <<>>
    /\ idx = 0
    /\ cross_sections = <<>>
    /\ cross_sections_for_sweep = <<>>
    /\ debug_curves = <<>>
    /\ debug_vectors = <<>>
    /\ belt_surface = "unset"
    /\ warnings = <<>>
    /\ calls = {}
    /\ zero_distance_at = {}
    /\ faults = 0
    /\ rebuild_args = <<>>

(***************************************************************************)
(* interpolate_value in binary floating point                              *)
(*                                                                         *)
(* A float is an integer with at most Precision significant bits; every    *)
(* arithmetic operation rounds its exact result to the nearest float, ties *)
(* to even (Python floats do so with 53 bits).                             *)
(***************************************************************************)
\* bits of the significand
Precision == 3

\* the largest magnitude of the values tried
FloatMax == IPow(2, Precision + 1) + 4

RECURSIVE BitLength(_)
BitLength(n) == IF n = 0 THEN 0 ELSE 1 + BitLength(n \div 2)

\* the float nearest to the exact result x
RoundToFloat(x) ==
    LET a == Abs(x)
        drop == BitLength(a) - Precision
    IN  IF drop <= 0 THEN x
        ELSE LET unit == IPow(2, drop)
                 q == a \div unit
                 r == a % unit
                 up == 2 * r > unit \/ (2 * r = unit /\ q % 2 = 1)
                 m == (q + (IF up THEN 1 ELSE 0)) * unit
             IN  IF x < 0 THEN -m ELSE m

FloatAdd(x, y) == RoundToFloat(x + y)
FloatSub(x, y) == RoundToFloat(x - y)
FloatMul(x, y) == RoundToFloat(x * y)

\* pow(base, e) for an exponent e > 0 at the two bases where it is known
\* without e: pow(0.0, e) = 0.0 and pow(1.0, e) = 1.0
FloatPowAtEnd(base) == IF base = 0 THEN 0 ELSE 1

\* the weight of interpolate_value at t = 0 or t = 1; bias in thousandths,
\* strictly between 0 and 1, so that both exponents are positive
FloatWeight(t, bias) ==
    IF bias < 500 THEN FloatPowAtEnd(t)
    ELSE IF bias > 500 THEN FloatSub(1, FloatPowAtEnd(FloatSub(1, t)))
    ELSE t

interpolate_value_float(val_start, val_end, t, bias) ==
    FloatAdd(val_start, FloatMul(FloatSub(val_end, val_start), FloatWeight(t, bias)))

FloatVals == {x \in (-FloatMax)..FloatMax : RoundToFloat(x) = x}

NoInterpolation ==
    [stage |-> "idle", val_start |-> 0, val_end |-> 0, t |-> 0, bias |-> 500, result |-> 0]

InterpolateCalls ==
    [stage : {"called"}, val_start : FloatVals, val_end : FloatVals, t : {0, 1},
     bias : Biases, result : {0}]

\* one call of interpolate_value returns
Interpolate ==
    /\ interp.stage = "called"
    /\ interp' = [interp EXCEPT !.stage = "returned",
                    !.result = interpolate_value_float(interp.val_start, interp.val_end,
                                                       interp.t, interp.bias)]
    /\ UNCHANGED <<run_vars, yz, sticky, recomputes, perp, extraction>>

(***************************************************************************)
(* find_yz_plane_intersections                                             *)
(***************************************************************************)
\* the largest number of events Intersection.CurvePlane reports
MaxEvents == 2

\* range(0, 360, 10): the sampling fallback takes a point every 10/360 of
\* the domain, 36 points in all
SampleStep == 10
SampleSpan == 360

\* x_threshold = 1.0, in the unit of the coordinates
x_threshold == 1

\* half the width of the curves tried: a quarter of the samples
HalfWidth == (SampleSpan \div SampleStep) \div 4

\* PointAt for the curves tried: a closed curve through (0, 9), (9, 0),
\* (0, -9), (-9, 0), moved along X by the curve's shift; i is the position in
\* 1/360 of the domain
CurvePointAt(curve, i) ==
    LET k == i \div SampleStep
        q == HalfWidth
    IN  [X |-> curve.shift + (IF k <= q THEN k
                              ELSE IF k <= 3 * q THEN 2 * q - k
                              ELSE k - 4 * q),
         Y |-> IF k <= 2 * q THEN q - k ELSE k - 3 * q]

\* the curves handed to find_yz_plane_intersections: None, or a curve that
\* crosses the plane X = 0 (shift 0 and 5), touches it (9) or misses it (20)
YZCurves ==
    {NoCurve} \cup {[kind |-> "curve", shift |-> sh] : sh \in {0, 5, HalfWidth, 20}}

\* an event of Intersection.CurvePlane: a point event or an overlap event
EventAt(is_point, y, param) ==
    [IsPoint |-> is_point, PointA |-> [X |-> 0, Y |-> y], ParameterA |-> param]

RECURSIVE EventLists(_)
EventLists(n) ==
    IF n = 0 THEN {<<>>}
    ELSE LET shorter == EventLists(n - 1) IN
         shorter \cup
         { Append(es, EventAt(is_point, y, Len(es) * SampleStep)) :
             es \in {e \in shorter : Len(e) = n - 1},
             is_point \in BOOLEAN, y \in {-HalfWidth, 0, HalfWidth} }

\* list.sort(key = Y): stable, ascending
RECURSIVE InsertByY(_, _)
InsertByY(s, p) ==
    IF s = <<>> THEN << p >>
    ELSE IF s[Len(s)].point.Y <= p.point.Y THEN Append(s, p)
    ELSE Append(InsertByY(SubSeq(s, 1, Len(s) - 1), p), s[Len(s)])

RECURSIVE SortByY(_)
SortByY(s) ==
    IF s = <<>> THEN <<>>
    ELSE InsertByY(SortByY(SubSeq(s, 1, Len(s) - 1)), s[Len(s)])

\* the fallback of find_yz_plane_intersections: sample the curve, keep the
\* samples within x_threshold of the plane when there are two or more, else
\* all samples; entry is the sample of greatest Y, exit the one of least Y
SampledPoints(curve) ==
    [k \in 1..(SampleSpan \div SampleStep) |->
        [point |-> CurvePointAt(curve, (k - 1) * SampleStep), param |-> (k - 1) * SampleStep]]

\* variant: every sample is kept, near the plane or not
FallbackIntersections_unfiltered(curve) ==
    LET yz_points == SortByY(SampledPoints(curve))
    IN  [kind |-> "result", entry |-> yz_points[Len(yz_points)], exit |-> yz_points[1]]

FallbackIntersections(curve) ==
    LET points == SampledPoints(curve)
        near == SelectSeq(points, LAMBDA p : Abs(p.point.X) < x_threshold)
        yz_points == SortByY(IF Len(near) < 2 THEN points ELSE near)
    IN  [kind |-> "result", entry |-> yz_points[Len(yz_points)], exit |-> yz_points[1]]

find_yz_plane_intersections(curve, intersections) ==
    IF curve = NoCurve THEN None
    ELSE IF Len(intersections) = 0 THEN FallbackIntersections(curve)
    ELSE LET events == SelectSeq(intersections, LAMBDA e : e.IsPoint)
             int_points == SortByY([k \in 1..Len(events) |->
                              [point |-> events[k].PointA, param |-> events[k].ParameterA]])
         IN  IF Len(int_points) = 0 THEN None
             ELSE [kind |-> "result", entry |-> int_points[Len(int_points)],
                   exit |-> int_points[1]]

NoYZCall == [stage |-> "idle", curve |-> NoCurve, intersections |-> <<>>, result |-> None]

YZCalls ==
    [stage : {"called"}, curve : YZCurves, intersections : EventLists(MaxEvents),
     result : {None}]

\* one call of find_yz_plane_intersections returns
FindIntersections ==
    /\ yz.stage = "called"
    /\ yz' = [yz EXCEPT !.stage = "returned",
                !.result = find_yz_plane_intersections(yz.curve, yz.intersections)]
    /\ UNCHANGED <<run_vars, interp, sticky, recomputes, perp, extraction>>

(***************************************************************************)
(* capture_views of the batch-save component (PNG_Batch_Save/Batch.py)     *)
(***************************************************************************)
\* the largest number of recomputes of the component
MaxRecomputes == 4

\* the Python values the trigger input takes: unset, a boolean, or the
\* integer 0 / 1 of the 0 -> 1 edge; v is the value as an integer (False is
\* 0 and True is 1, as in Python)
PyNone == [type |-> "NoneType", v |-> 0]
PyBool(b) == [type |-> "bool", v |-> IF b THEN 1 ELSE 0]
PyInt(n) == [type |-> "int", v |-> n]
TriggerValues == {PyNone, PyBool(FALSE), PyBool(TRUE), PyInt(0), PyInt(1)}

\* bool(x)
Truthy(x) == x.type # "NoneType" /\ x.v # 0

\* x == True
EqualsTrue(x) == x.type # "NoneType" /\ x.v = 1

\* "capture_views_last_trigger_" + str(ghenv.Component.InstanceGuid)
sticky_key == "capture_views_last_trigger_" \o "guid"

\* sc.sticky.get(key, default)
StickyGet(st, key, default) == IF key \in DOMAIN st THEN st[key] ELSE default

\* variant: the trigger state is not stored
StickySet_skipped(st, key, value) == st

\* sc.sticky[key] = value
StickySet(st, key, value) ==
    [k \in DOMAIN st \cup {key} |-> IF k = key THEN value ELSE st[k]]

EmptySticky == [k \in {} |-> PyNone]

\* how a capture sequence that started ends: an early return on an invalid
\* input, the complete batch, or the handler of an exception
CaptureOutcomes == {"ERROR", "COMPLETE", "MAIN ERROR"}

\* one recompute of the component: capture_views(trigger, ...)
capture_views ==
    /\ Len(recomputes) < MaxRecomputes
    /\ \E trigger \in TriggerValues, outcome \in CaptureOutcomes :
          LET last_trigger == StickyGet(sticky, sticky_key, PyBool(FALSE)) IN
          /\ sticky' = StickySet(sticky, sticky_key, trigger)
          /\ IF ~Truthy(trigger)
             THEN /\ outcome = "COMPLETE"
                  /\ recomputes' = Append(recomputes,
                        [trigger |-> trigger, started |-> FALSE,
                         status |-> "Trigger is False - ready for next capture"])
             ELSE IF EqualsTrue(last_trigger)
             THEN /\ outcome = "COMPLETE"
                  /\ recomputes' = Append(recomputes,
                        [trigger |-> trigger, started |-> FALSE,
                         status |-> "Waiting for trigger reset"])
             ELSE recomputes' = Append(recomputes,
                        [trigger |-> trigger, started |-> TRUE, status |-> outcome])
    /\ UNCHANGED <<run_vars, interp, yz, perp, extraction>>

(***************************************************************************)
(* get_perpendicular_to_trim                                               *)
(*                                                                         *)
(* A vector along the candidate (surface normal x curve tangent) is the    *)
(* number it multiplies the unit candidate by: 1 is the candidate, -1 its  *)
(* reverse.                                                                *)
(***************************************************************************)
\* len(test_distances)
TestOffsets == 3

\* what the kernel says of a test point: a PointFaceRelation, or no closest
\* point on the face
Relations == {"Interior", "Exterior", "Boundary", "no closest point"}

\* Vector3d.Reverse()
Reversed(vec) == -vec

CountOf(relations, relation) ==
    Cardinality({k \in 1..TestOffsets : relations[k] = relation})

\* variant: without the last reversal
get_perpendicular_to_trim_inward(closest_ok, relations, alignment_with_center) ==
    IF ~closest_ok THEN None
    ELSE LET perp_vec == 1
             interior_count == CountOf(relations, "Interior")
             exterior_count == CountOf(relations, "Exterior")
             decided == IF exterior_count > interior_count THEN Reversed(perp_vec)
                        ELSE IF exterior_count = interior_count /\ alignment_with_center < 0
                        THEN Reversed(perp_vec)
                        ELSE perp_vec
         IN  [kind |-> "vector", along_candidate |-> decided]

\* closest_ok: face.ClosestPoint(pt) succeeded; relations: the kernel's
\* classification of the test points; alignment_with_center: the dot
\* product of the candidate with the projected direction to the center
get_perpendicular_to_trim(closest_ok, relations, alignment_with_center) ==
    IF ~closest_ok THEN None
    ELSE LET perp_vec == 1
             interior_count == CountOf(relations, "Interior")
             exterior_count == CountOf(relations, "Exterior")
             decided == IF exterior_count > interior_count THEN Reversed(perp_vec)
                        ELSE IF exterior_count = interior_count /\ alignment_with_center < 0
                        THEN Reversed(perp_vec)
                        ELSE perp_vec
         IN  [kind |-> "vector", along_candidate |-> Reversed(decided)]

NoPerpendicularCall ==
    [stage |-> "idle", closest_ok |-> FALSE,
     relations |-> [k \in 1..TestOffsets |-> "Boundary"],
     alignment_with_center |-> 0, result |-> None]

PerpendicularCalls ==
    [stage : {"called"}, closest_ok : BOOLEAN,
     relations : [1..TestOffsets -> Relations],
     alignment_with_center : {-1, 0, 1}, result : {None}]

\* one call of get_perpendicular_to_trim returns
Perpendicular ==
    /\ perp.stage = "called"
    /\ perp' = [perp EXCEPT !.stage = "returned",
                  !.result = get_perpendicular_to_trim(perp.closest_ok, perp.relations,
                                                       perp.alignment_with_center)]
    /\ UNCHANGED <<run_vars, interp, yz, sticky, recomputes, extraction>>

(***************************************************************************)
(* extract_trim_curve                                                      *)
(***************************************************************************)
\* the largest number of trim loops of a face
MaxLoops == 2

\* loop.To3dCurve(): no curve, or a curve of length 0, 1 or 2
LoopCurves == {None} \cup {[kind |-> "curve", length |-> len] : len \in 0..2}
Loops == [LoopType : {"Outer", "Inner"}, To3dCurve : LoopCurves]

RECURSIVE LoopLists(_)
LoopLists(n) ==
    IF n = 0 THEN {<<>>}
    ELSE LET shorter == LoopLists(n - 1) IN
         shorter \cup {Append(ls, l) : ls \in {x \in shorter : Len(x) = n - 1}, l \in Loops}

\* the surfaces handed to extract_trim_curve: None, a brep without faces, a
\* brep whose first face has the loops
Breps ==
    {None, [kind |-> "brep", Faces |-> <<>>]}
        \cup {[kind |-> "brep", Faces |-> << [Loops |-> ls] >>] : ls \in LoopLists(MaxLoops)}

\* the first loop tagged outer, 0 when there is none
FirstOuter(loops) ==
    LET outers == {k \in 1..Len(loops) : loops[k].LoopType = "Outer"}
    IN  IF outers = {} THEN 0 ELSE CHOOSE k \in outers : \A j \in outers : k <= j

\* the fallback loop: max_length starts at 0 and a loop replaces the choice
\* when it has a curve longer than max_length
RECURSIVE LongestFrom(_, _, _, _)
LongestFrom(loops, k, max_length, outer_loop) ==
    IF k > Len(loops) THEN outer_loop
    ELSE LET crv == loops[k].To3dCurve IN
         IF crv # None /\ crv.length > max_length
         THEN LongestFrom(loops, k + 1, crv.length, k)
         ELSE LongestFrom(loops, k + 1, max_length, outer_loop)

ExtractReturn(curve, loop) == [outcome |-> "returned", curve |-> curve, loop |-> loop]

\* variant: the longest loop is taken whatever the tags are
extract_trim_curve_longest(brep_surface) ==
    IF brep_surface = None THEN ExtractReturn(None, 0)
    ELSE IF Len(brep_surface.Faces) = 0
    THEN [outcome |-> "raised", curve |-> None, loop |-> 0]
    ELSE LET loops == brep_surface.Faces[1].Loops
             outer_loop == LongestFrom(loops, 1, 0, 0)
         IN  IF outer_loop # 0 THEN ExtractReturn(loops[outer_loop].To3dCurve, outer_loop)
             ELSE ExtractReturn(None, 0)

\* the curve returned and the loop it comes from, or the exception of
\* Faces[0] on a brep without faces
extract_trim_curve(brep_surface) ==
    IF brep_surface = None THEN ExtractReturn(None, 0)
    ELSE IF Len(brep_surface.Faces) = 0
    THEN [outcome |-> "raised", curve |-> None, loop |-> 0]
    ELSE LET loops == brep_surface.Faces[1].Loops
             tagged == FirstOuter(loops)
             outer_loop == IF tagged # 0 THEN tagged ELSE LongestFrom(loops, 1, 0, 0)
         IN  IF outer_loop # 0 THEN ExtractReturn(loops[outer_loop].To3dCurve, outer_loop)
             ELSE ExtractReturn(None, 0)

NoExtraction == [stage |-> "idle", brep |-> None, result |-> ExtractReturn(None, 0)]

ExtractionCalls == [stage : {"called"}, brep : Breps, result : {ExtractReturn(None, 0)}]

\* one call of extract_trim_curve returns or raises
ExtractTrimCurve ==
    /\ extraction.stage = "called"
    /\ extraction' = [extraction EXCEPT !.stage = "over",
                        !.result = extract_trim_curve(extraction.brep)]
    /\ UNCHANGED <<run_vars, interp, yz, sticky, recomputes, perp>>

(***************************************************************************)
(* The specifications of the functions and components checked on their own *)
(***************************************************************************)
AuxIdle ==
    /\ interp = NoInterpolation
    /\ yz = NoYZCall
    /\ sticky = EmptySticky
    /\ recomputes = <<>>
    /\ perp = NoPerpendicularCall
    /\ extraction = NoExtraction

InterpInit ==
    /\ RunIdle
    /\ interp \in InterpolateCalls
    /\ yz = NoYZCall
    /\ sticky = EmptySticky
    /\ recomputes = <<>>
    /\ perp = NoPerpendicularCall
    /\ extraction = NoExtraction

InterpNext == Interpolate

SpecInterp == InterpInit /\ [][InterpNext]_vars

YZInit ==
    /\ RunIdle
    /\ interp = NoInterpolation
    /\ yz \in YZCalls
    /\ sticky = EmptySticky
    /\ recomputes = <<>>
    /\ perp = NoPerpendicularCall
    /\ extraction = NoExtraction

YZNext == FindIntersections

SpecYZ == YZInit /\ [][YZNext]_vars

PerpInit ==
    /\ RunIdle
    /\ interp = NoInterpolation
    /\ yz = NoYZCall
    /\ sticky = EmptySticky
    /\ recomputes = <<>>
    /\ perp \in PerpendicularCalls
    /\ extraction = NoExtraction

PerpNext == Perpendicular

SpecPerp == PerpInit /\ [][PerpNext]_vars

ExtractInit ==
    /\ RunIdle
    /\ interp = NoInterpolation
    /\ yz = NoYZCall
    /\ sticky = EmptySticky
    /\ recomputes = <<>>
    /\ perp = NoPerpendicularCall
    /\ extraction \in ExtractionCalls

ExtractNext == ExtractTrimCurve

SpecExtract == ExtractInit /\ [][ExtractNext]_vars

BatchInit ==
    /\ RunIdle
    /\ AuxIdle

BatchNext == capture_views

SpecBatch == BatchInit /\ [][BatchNext]_vars

(***************************************************************************)
(* Spec: one run of generate_belt_surface                                  *)
(***************************************************************************)
\* scalar inputs of the runs explored: A at 0.33 included or not, B left
\* out, no or one intermediate section, linear bias, rebuild on or off
RunInput(include_A, sections, rebuild_tolerance) ==
    [A_position |-> (33 * PosUnit) \div 100, B_position |-> (66 * PosUnit) \div 100,
     include_A |-> include_A, include_B |-> FALSE,
     vals |-> DistinctVals,
     intermediate_sections |-> sections,
     transition_bias |-> 500,
     rebuild_tolerance |-> rebuild_tolerance]

RunInputs ==
    { RunInput(FALSE, 0, 1), RunInput(TRUE, 0, 0), RunInput(FALSE, 1, 0), RunInput(TRUE, 1, 1) }

Init ==
    /\ pc = "step1"
    /\ inputs \in RunInputs
    /\ dome_rail = NoCurve
    /\ bowl_rail = NoCurve
    /\ dome_exit_param = 0
    /\ bowl_exit_param = 0
    /\ exit_found_at = [dome |-> 0, bowl |-> 0]
    /\ primary_cps = <<>>
    /\ merged_cps = <<>>
    /\ all_cps = <<>>
    /\ idx = 0
    /\ cross_sections = <<>>
    /\ cross_sections_for_sweep = <<>>
    /\ debug_curves = <<>>
    /\ debug_vectors = <<>>
    /\ belt_surface = "unset"
    /\ warnings = <<>>
    /\ calls = {}
    /\ zero_distance_at = {}
    /\ faults = 0
    /\ rebuild_args = <<>>
    /\ AuxIdle

Next ==
    \/ Step1_Extract
    \/ Step2_FindEntries
    \/ Step3_Reorder
    \/ Step3_5_Align
    \/ Step4_BuildPrimary
    \/ Step5_BuildAll
    \/ Step6_Vectors
    \/ Step7_CrossSections
    \/ Step8_Sweep
    \/ Step9_Rebuild

Spec == Init /\ [][Next]_vars

Returned == pc = "done"

(***************************************************************************)
(* SpecPlan: the planner on inputs drawn from bounded sets                 *)
(***************************************************************************)
PlanInit ==
    /\ pc = "step4"
    /\ inputs \in PlanInputs
    /\ dome_exit_param \in ExitParams
    /\ dome_rail = NoCurve
    /\ bowl_rail = NoCurve
    /\ bowl_exit_param = 0
    /\ exit_found_at = [dome |-> 0, bowl |-> 0]
    /\ primary_cps = <<>>
    /\ merged_cps = <<>>
    /\ all_cps = <<>>
    /\ idx = 0
    /\ cross_sections = <<>>
    /\ cross_sections_for_sweep = <<>>
    /\ debug_curves = <<>>
    /\ debug_vectors = <<>>
    /\ belt_surface = "unset"
    /\ warnings = <<>>
    /\ calls = {}
    /\ zero_distance_at = {}
    /\ faults = 0
    /\ rebuild_args = <<>>
    /\ AuxIdle

PlanNext == Step4_BuildPrimary \/ Step5_BuildAll

SpecPlan == PlanInit /\ [][PlanNext]_vars

Planned == pc = "step6"

(***************************************************************************)
(* Claims about the planner (SpecPlan)                                     *)
(***************************************************************************)
Named(cps, name) == {i \in 1..Len(cps) : cps[i].name = name}
HasValsOf(cp, v) ==
    /\ cp.angle_dome = v.angle_dome * ValueScale
    /\ cp.angle_bowl = v.angle_bowl * ValueScale
    /\ cp.mag_dome = v.mag_dome * ValueScale
    /\ cp.mag_bowl = v.mag_bowl * ValueScale

\* |p - q| < 1e-6 for two params, stated without the model's within_eps
CloseTo(p, q) ==
    Abs(p - q) < ParamScale \div EpsInv + (IF ParamScale % EpsInv = 0 THEN 0 ELSE 1)

\* C1: the list returned by build_all_control_points on the output of
\* build_primary_control_points is sorted by non-decreasing param, holds a
\* point named entry at param 0.0 and holds a point whose param is within
\* 1e-6 of 1.0.
C1_ClosureInvariant ==
    Planned =>
        /\ IsSortedByParam(all_cps)
        /\ \E i \in Named(all_cps, "entry") : all_cps[i].param = 0
        /\ \E i \in 1..Len(all_cps) : CloseTo(all_cps[i].param, ParamOne)

\* the planner ran with both optional points, MaxInter intermediates and an
\* exit inside (0,1), and had to add the closure point
C1_Witness ==
    /\ Planned
    /\ inputs.include_A /\ inputs.include_B
    /\ inputs.intermediate_sections = MaxInter
    /\ dome_exit_param = ExitUnit \div 2
    /\ Named(all_cps, "closure") # {}

\* C3: with include_A = include_B = False the planner produces exactly the
\* primaries entry and exit, intermediate_count intermediates on entry->exit
\* and intermediate_count on the wrap segment exit->entry: 2 + 2*count points
\* before the closure point is added.
C3_TwoPrimariesCount ==
    (Planned /\ ~inputs.include_A /\ ~inputs.include_B) =>
        LET n == inputs.intermediate_sections IN
        /\ Len(primary_cps) = 2
        /\ {primary_cps[i].name : i \in 1..2} = {"entry", "exit"}
        /\ Len(merged_cps) = 2 + 2 * n
        /\ \A k \in 1..n :
              /\ Cardinality(Named(merged_cps, "entry_to_exit_" \o ToString(k))) = 1
              /\ Cardinality(Named(merged_cps, "exit_to_entry_" \o ToString(k))) = 1
        /\ Len(all_cps) \in {Len(merged_cps), Len(merged_cps) + 1}

C3_Witness ==
    /\ Planned /\ ~inputs.include_A /\ ~inputs.include_B
    /\ inputs.intermediate_sections = MaxInter
    /\ Len(merged_cps) = 2 + 2 * MaxInter
    /\ Len(all_cps) = Len(merged_cps) + 1

\* C4 (as claimed): in the planner's final list no two control points have
\* the same param.
C4_UniqueParams ==
    Planned =>
        \A i, j \in 1..Len(all_cps) : i # j => all_cps[i].param # all_cps[j].param

\* C7: an included A (resp. B) is at param position*exit and its mirror at
\* exit + (1 - exit)*position, both with the four values given for A
\* (resp. B); exit 0.4 and B_position 0.66 give 0.264 and 0.796; the mirror
\* exists iff the point is included.
C7_PointAndMirror(name, mirror, included, pos, v) ==
    IF included
    THEN /\ Cardinality(Named(primary_cps, name)) = 1
         /\ Cardinality(Named(primary_cps, mirror)) = 1
         /\ \A i \in Named(primary_cps, name) :
               /\ primary_cps[i].param = pos * dome_exit_param * TScale
               /\ HasValsOf(primary_cps[i], v)
         /\ \A i \in Named(primary_cps, mirror) :
               /\ primary_cps[i].param =
                     (dome_exit_param * PosUnit + (ExitUnit - dome_exit_param) * pos) * TScale
               /\ HasValsOf(primary_cps[i], v)
    ELSE Named(primary_cps, name) = {} /\ Named(primary_cps, mirror) = {}

C7_Example ==
    (/\ inputs.include_B
     /\ 5 * dome_exit_param = 2 * ExitUnit
     /\ 100 * inputs.B_position = 66 * PosUnit
     /\ ParamScale % 1000 = 0) =>
        /\ \A i \in Named(primary_cps, "B") :
              primary_cps[i].param = 264 * (ParamScale \div 1000)
        /\ \A i \in Named(primary_cps, "B_mirror") :
              primary_cps[i].param = 796 * (ParamScale \div 1000)

C7_MirrorPlacement ==
    pc \in {"step5", "step6"} =>
        /\ C7_PointAndMirror("A", "A_mirror", inputs.include_A,
                             inputs.A_position, inputs.vals.A)
        /\ C7_PointAndMirror("B", "B_mirror", inputs.include_B,
                             inputs.B_position, inputs.vals.B)
        /\ C7_Example

\* the example of the claim: exit 0.4, B at 0.66, A left out
C7_Witness ==
    /\ pc = "step5"
    /\ inputs.include_B /\ ~inputs.include_A
    /\ 5 * dome_exit_param = 2 * ExitUnit
    /\ 100 * inputs.B_position = 66 * PosUnit
    /\ ParamScale % 1000 = 0
    /\ inputs.vals = DistinctVals
    /\ Named(primary_cps, "B_mirror") # {}

(***************************************************************************)
(* Claims about a run of generate_belt_surface (Spec)                      *)
(***************************************************************************)
HasMsg(level, text) ==
    \E i \in 1..Len(warnings) : warnings[i].level = level /\ warnings[i].text = text

\* the terminal failures of the claim, each with the kernel operations the
\* run may have made when it is reported and the number of diagnostics that
\* follow its ERROR entry
TerminalFailures ==
    LET upto_extract == {"extract"}
        upto_entries == upto_extract \cup {"intersect"}
        upto_reorder == upto_entries \cup {"reorder", "reintersect"}
        upto_bezier  == upto_reorder \cup {"reverse", "reintersect_reversed", "plan_primary",
                            "plan_all", "closest_point", "perpendicular", "bezier"}
        upto_sweep   == upto_bezier \cup {"sweep"}
    IN
    { [text |-> "Could not extract trim curves from surfaces", may |-> upto_extract, after |-> 0],
      [text |-> "Could not find YZ plane intersections", may |-> upto_entries, after |-> 0],
      [text |-> "Could not find YZ plane exit intersections after reordering",
       may |-> upto_reorder, after |-> 0],
      [text |-> "Invalid bezier curve at", may |-> upto_bezier, after |-> 0],
      [text |-> "Sweep 2 Rails failed", may |-> upto_sweep, after |-> 5],
      [text |-> "Sweep result has no faces", may |-> upto_sweep, after |-> 0],
      [text |-> "Failed to extract NURBS surface from sweep", may |-> upto_sweep, after |-> 0] }

\* C2: every terminal failure (no rail, no plane intersection before or after
\* reordering, an invalid cross-section, a loft with no result / no face / no
\* NURBS surface) ends the run at that stage: as soon as its ERROR entry is
\* in the warnings the run has returned, the surface is null, the warnings
\* end with the entries of the failed stage, and no later stage (no loft
\* after an earlier failure, never a rebuild) has run.
C2_TerminalFailures ==
    \A f \in TerminalFailures :
        \A i \in 1..Len(warnings) :
            (warnings[i].level = "ERROR" /\ warnings[i].text = f.text) =>
                /\ pc = "done"
                /\ belt_surface = "None"
                /\ i = Len(warnings) - f.after
                /\ calls \subseteq f.may

\* a run that built two cross-sections and then found the third invalid
C2_Witness ==
    /\ Returned
    /\ HasMsg("ERROR", "Invalid bezier curve at")
    /\ Len(debug_curves) = 2
    /\ belt_surface = "None"

\* C5 (as claimed): whenever a run reaches the loft stage, the cross-sections
\* built in step 7 are one per control point of the planner's list, in the
\* same order; no control point is skipped.
C5_OneSectionPerPoint ==
    "sweep" \in calls =>
        /\ Len(cross_sections) = Len(all_cps)
        /\ \A i \in 1..Len(cross_sections) : cross_sections[i] = all_cps[i].name

\* the alignment step (STEP 3.5) is over
AfterAlignment == "plan_primary" \in calls \/ pc = "step4"

\* C6 (as claimed): after the alignment step both rails have domain [0,1] and
\* the dot product of their start tangents projected onto the XY plane is
\* non-negative.
C6_AlignedRails ==
    AfterAlignment =>
        /\ dome_rail.domain = UnitDomain
        /\ bowl_rail.domain = UnitDomain
        /\ Dot(dome_rail.tangent_start, bowl_rail.tangent_start) >= 0

CpNamed(name) == all_cps[CHOOSE i \in 1..Len(all_cps) : all_cps[i].name = name]

\* C8: when the dome-bowl distance of a control point is below the tolerance
\* the run does not fail there: a WARNING naming the point is appended, both
\* offset vectors of the point are scaled with the distance 1.0, and the run
\* goes on with the remaining control points and stages (it returns only
\* from STEP 7 on, with every control point resolved on the dome side).
C8_ZeroDistance ==
    \A name \in zero_distance_at :
        /\ \E i \in 1..Len(warnings) :
              warnings[i] = Msg("WARNING", "Zero distance at", name)
        /\ CpNamed(name).dome_vector.kind = "vector"
        /\ CpNamed(name).bowl_vector.kind = "vector"
        /\ CpNamed(name).dome_vector.distance = "1.0"
        /\ CpNamed(name).bowl_vector.distance = "1.0"
        /\ pc = "done" =>
              /\ "bezier" \in calls
              /\ \A i \in 1..Len(all_cps) : all_cps[i].dome_point # None
        /\ pc \in {"step8", "step9"} => \E i \in 1..Len(cross_sections) : cross_sections[i] = name

\* a run with a zero distance at the exit point that returned a surface
C8_Witness ==
    /\ Returned
    /\ "exit" \in zero_distance_at
    /\ belt_surface = "swept"
    /\ Len(cross_sections) = Len(all_cps)

\* the diagnostic of the failed loft for a rail: its IsValid and IsClosed
SaysNotClosed(text) ==
    \E i \in 1..Len(warnings) :
        /\ warnings[i].text = text
        /\ Len(warnings[i].flags) = 2
        /\ warnings[i].flags[2] = FALSE

\* C9 (as claimed): if one of the two rails is open the loft stage fails: the
\* run returns a null surface and the warnings hold a diagnostic reporting
\* the IsClosed flag of the non-closed rail as false.
C9_OpenRailFails ==
    (Returned /\ "sweep" \in calls) =>
        /\ ~dome_rail.closed =>
              belt_surface = "None" /\ SaysNotClosed("Rail 1 IsValid, IsClosed")
        /\ ~bowl_rail.closed =>
              belt_surface = "None" /\ SaysNotClosed("Rail 2 IsValid, IsClosed")

HasFlags(text, n) ==
    \E i \in 1..Len(warnings) : warnings[i].text = text /\ Len(warnings[i].flags) = n

\* C10 (as claimed): whenever the loft stage fails, by no result or by a
\* result with no usable face, the returned warnings include the validity
\* and closedness flags of both rails and the validity of the first and of
\* the last cross-section handed to the loft.
C10_LoftDiagnostics ==
    (Returned /\ (HasMsg("ERROR", "Sweep 2 Rails failed")
                    \/ HasMsg("ERROR", "Sweep result has no faces"))) =>
        /\ HasFlags("Rail 1 IsValid, IsClosed", 2)
        /\ HasFlags("Rail 2 IsValid, IsClosed", 2)
        /\ HasFlags("First section valid", 1)
        /\ HasFlags("Last section valid", 1)

(***************************************************************************)
(* Claims on interpolate_value                                             *)
(***************************************************************************)
\* C11 (as claimed): for every bias strictly between 0 and 1 and all values,
\* interpolate_value(v0, v1, 0, b) returns exactly v0 and
\* interpolate_value(v0, v1, 1, b) returns exactly v1.
C11_ExactEndpoints ==
    interp.stage = "returned" =>
        /\ interp.t = 0 => interp.result = interp.val_start
        /\ interp.t = 1 => interp.result = interp.val_end

\* the control point of that name in a list that holds it once
Find(cps, name) == cps[CHOOSE j \in Named(cps, name) : TRUE]

\* the pair of primaries that starts at the k-th one; the last pair closes
\* the loop on the first primary
PairFrom(k) == primary_cps[k]
PairTo(k) == primary_cps[(k % Len(primary_cps)) + 1]
IntermediateName(k, i) == PairFrom(k).name \o "_to_" \o PairTo(k).name \o "_" \o ToString(i)

\* v lies on the straight line from v1 to v2 at the fraction i / (n + 1)
OnLine(v, v1, v2, i, n) == (n + 1) * (v - v1) = (v2 - v1) * i

\* C12: with bias 0.5 interpolate_value is linear, v0 + (v1 - v0) * t: the
\* angles and magnitudes of every intermediate control point lie on the
\* straight line between the values of its two bounding primaries, at the
\* point's fraction t = i / (n + 1).
C12_LinearAtHalf ==
    (Planned /\ inputs.transition_bias = 500) =>
        LET n == inputs.intermediate_sections IN
        \A k \in 1..Len(primary_cps) : \A i \in 1..n :
            LET cp == Find(merged_cps, IntermediateName(k, i))
                cp1 == PairFrom(k)
                cp2 == PairTo(k)
            IN  /\ Cardinality(Named(merged_cps, IntermediateName(k, i))) = 1
                /\ OnLine(cp.angle_dome, cp1.angle_dome, cp2.angle_dome, i, n)
                /\ OnLine(cp.angle_bowl, cp1.angle_bowl, cp2.angle_bowl, i, n)
                /\ OnLine(cp.mag_dome, cp1.mag_dome, cp2.mag_dome, i, n)
                /\ OnLine(cp.mag_bowl, cp1.mag_bowl, cp2.mag_bowl, i, n)

\* bias 0.5, A included with its own profile: the first of the intermediates
\* between entry and A lies strictly between the two profiles
C12_Witness ==
    /\ Planned
    /\ inputs.transition_bias = 500
    /\ inputs.intermediate_sections = MaxInter
    /\ inputs.include_A /\ ~inputs.include_B
    /\ inputs.vals = DistinctVals
    /\ primary_cps[2].name = "A"
    /\ Named(merged_cps, "entry_to_A_1") # {}
    /\ Find(merged_cps, "entry_to_A_1").angle_dome > primary_cps[1].angle_dome
    /\ Find(merged_cps, "entry_to_A_1").angle_dome < primary_cps[2].angle_dome

(***************************************************************************)
(* Claims on find_yz_plane_intersections                                   *)
(***************************************************************************)
\* C13 (as claimed): find_yz_plane_intersections returns no result only if
\* the curve yields no sampled point: whenever the kernel reports at least
\* one intersection event of any kind, or the sampling fallback produced
\* samples, a result with an entry and an exit is returned.
C13_FailsOnlyWithoutPoints ==
    (/\ yz.stage = "returned"
     /\ yz.curve # NoCurve
     /\ \/ Len(yz.intersections) >= 1
        \/ Len(SampledPoints(yz.curve)) >= 1) =>
        /\ yz.result # None
        /\ yz.result.kind = "result"

(***************************************************************************)
(* Claims on the run as a whole                                            *)
(***************************************************************************)
\* C14 (as claimed): a run of generate_belt_surface always terminates by
\* returning its 4-tuple and never ends with an unhandled exception,
\* whatever the kernel answers (a zero-length dome rail, a surface without
\* faces, a failed kernel query).
C14_NeverRaises ==
    pc # "raised"

(***************************************************************************)
(* Claims on the closure point                                             *)
(***************************************************************************)
\* C15: after merging and sorting, build_all_control_points appends a point
\* named closure exactly when no point has param within 1e-6 of 1.0; the
\* closure point is at param 1.0 and carries the angles and magnitudes of
\* entry, the list is sorted again, and there is at most one closure point.
C15_ClosureAppended ==
    Planned =>
        LET closures == Named(all_cps, "closure")
            had_end == \E i \in 1..Len(merged_cps) : CloseTo(merged_cps[i].param, ParamOne)
        IN  /\ Cardinality(closures) <= 1
            /\ (closures # {}) <=> ~had_end
            /\ Len(all_cps) = Len(merged_cps) + Cardinality(closures)
            /\ \A i \in closures :
                  /\ all_cps[i].param = ParamOne
                  /\ HasValsOf(all_cps[i], inputs.vals.entry)
            /\ \A i \in 1..(Len(all_cps) - 1) : all_cps[i].param <= all_cps[i + 1].param
            /\ \A i \in 1..Len(merged_cps) :
                  \E j \in 1..Len(all_cps) : all_cps[j] = merged_cps[i]

\* a closure point was appended to a list that ended on another profile
C15_Witness ==
    /\ Planned
    /\ inputs.vals = DistinctVals
    /\ Named(all_cps, "closure") # {}
    /\ all_cps[Len(all_cps)].name = "closure"
    /\ ~HasValsOf(merged_cps[Len(merged_cps)], inputs.vals.entry)
    /\ Len(all_cps) = Len(merged_cps) + 1

(***************************************************************************)
(* Claims on the batch-save component                                      *)
(***************************************************************************)
\* the trigger input is true on a recompute
TriggerOn(x) == x \in {PyBool(TRUE), PyInt(1)}

\* C16: over any sequence of recomputes, capture_views executes the capture
\* sequence on a recompute if and only if trigger is true on that recompute
\* and was not true on the one just before it (or there was none before);
\* while trigger stays true no further capture starts, and a capture starts
\* again only after a recompute with trigger false.
C16_RisingEdge ==
    \A i \in 1..Len(recomputes) :
        /\ recomputes[i].started <=>
              /\ TriggerOn(recomputes[i].trigger)
              /\ i = 1 \/ ~TriggerOn(recomputes[i - 1].trigger)
        /\ \A j \in 1..(i - 1) :
              (recomputes[i].started /\ recomputes[j].started) =>
                  \E k \in (j + 1)..(i - 1) : ~TriggerOn(recomputes[k].trigger)

\* trigger true, true, false, true: captures on the first and the fourth
C16_Witness ==
    /\ Len(recomputes) = 4
    /\ TriggerOn(recomputes[1].trigger) /\ recomputes[1].started
    /\ TriggerOn(recomputes[2].trigger) /\ ~recomputes[2].started
    /\ ~TriggerOn(recomputes[3].trigger) /\ ~recomputes[3].started
    /\ TriggerOn(recomputes[4].trigger) /\ recomputes[4].started

(***************************************************************************)
(* Claims on the intermediates                                             *)
(***************************************************************************)
\* C17 (as claimed): for the closing pair (last primary -> entry) every
\* inserted intermediate i has param = p_last + (1 - p_last) * i / (n + 1):
\* never below the last primary's param, never above 1.0, increasing with i
\* toward 1.0.
C17_WrapTowardOne ==
    Planned =>
        LET n == inputs.intermediate_sections
            k == Len(primary_cps)
            p_last == primary_cps[k].param
        IN  /\ (ParamOne - p_last) % (n + 1) = 0
            /\ \A i \in 1..n :
                  LET cp == Find(merged_cps, IntermediateName(k, i)) IN
                  /\ cp.param = p_last + ((ParamOne - p_last) \div (n + 1)) * i
                  /\ cp.param >= p_last
                  /\ cp.param <= ParamOne
                  /\ i > 1 => cp.param >= Find(merged_cps, IntermediateName(k, i - 1)).param

\* C18: for each of the k consecutive pairs of the sorted primaries (the
\* k-th being last primary -> entry) exactly intermediate_count points are
\* inserted; the i-th is named "{from}_to_{to}_{i}", uses t = i / (count + 1),
\* has param p_from + (p_to - p_from) * t for a non-wrapping pair and each of
\* its four values equal to interpolate_value(value_from, value_to, t, bias);
\* the list before closure has k * (1 + count) points.
C18_IntermediatesPerPair ==
    Planned =>
        LET n == inputs.intermediate_sections
            k == Len(primary_cps)
            bias == inputs.transition_bias
        IN  /\ Len(merged_cps) = k * (1 + n)
            /\ \A j \in 1..k :
                  /\ Cardinality({c \in 1..Len(merged_cps) :
                        \E i \in 1..n : merged_cps[c].name = IntermediateName(j, i)}) = n
                  /\ \A i \in 1..n :
                        LET cp == Find(merged_cps, IntermediateName(j, i))
                            cp1 == PairFrom(j)
                            cp2 == PairTo(j)
                            tnum == (i * TScale) \div (n + 1)
                        IN  /\ Cardinality(Named(merged_cps, IntermediateName(j, i))) = 1
                            /\ tnum * (n + 1) = i * TScale
                            /\ cp2.param >= cp1.param =>
                                  cp.param = cp1.param + ((cp2.param - cp1.param) \div (n + 1)) * i
                            /\ cp.angle_dome =
                                  interpolate_value(cp1.angle_dome, cp2.angle_dome, tnum, bias)
                            /\ cp.angle_bowl =
                                  interpolate_value(cp1.angle_bowl, cp2.angle_bowl, tnum, bias)
                            /\ cp.mag_dome =
                                  interpolate_value(cp1.mag_dome, cp2.mag_dome, tnum, bias)
                            /\ cp.mag_bowl =
                                  interpolate_value(cp1.mag_bowl, cp2.mag_bowl, tnum, bias)

\* all six primaries, each pair with MaxInter intermediates, biased values
C18_Witness ==
    /\ Planned
    /\ inputs.include_A /\ inputs.include_B
    /\ inputs.vals = DistinctVals
    /\ inputs.transition_bias # 500
    /\ inputs.intermediate_sections = MaxInter
    /\ Len(primary_cps) = 6
    /\ Len(merged_cps) = 6 * (1 + MaxInter)
    /\ Named(merged_cps, "A_to_B_" \o ToString(MaxInter)) # {}
    /\ Find(merged_cps, "A_to_B_1").angle_dome # primary_cps[2].angle_dome

(***************************************************************************)
(* Claims on the resolution of the points                                  *)
(***************************************************************************)
\* C19 (as claimed): the exit parameter of a rail that later stages use is
\* the one located by a plane intersection run after the last change to that
\* rail: whenever the bowl rail is reversed, the bowl exit parameter that
\* resolves the exit control point's bowl-side point is the one located on
\* the reversed rail.
C19_ExitLocatedLast ==
    \A i \in 1..Len(all_cps) :
        (all_cps[i].name = "exit" /\ all_cps[i].bowl_point # None) =>
            /\ exit_found_at.dome = dome_rail.rev
            /\ exit_found_at.bowl = bowl_rail.rev
            /\ all_cps[i].bowl_point.at = ExitAsParam(bowl_rail.exit_at)

Landmarks == {"entry", "exit", "closure"}

\* the point of a rail at a param; on a closed rail 1.0 is the start point
AtParam(point, rail_name, rail, param) ==
    /\ point.rail = rail_name
    /\ point.rule = "at_param"
    /\ point.at = (IF rail.closed /\ param = ParamOne THEN 0 ELSE param)

\* C20: for a control point named entry, exit or closure the bowl-side point
\* is the bowl rail's point at 0.0, at the bowl rail's exit parameter, or at
\* 1.0, and no closest-point query is made; for every other name it is the
\* closest point of the bowl rail to the dome-side point.  The dome-side
\* point is always the dome rail's point at the control point's param.
C20_PointResolution ==
    /\ \A i \in 1..Len(all_cps) :
          LET cp == all_cps[i] IN
          cp.dome_point # None =>
              /\ AtParam(cp.dome_point, "dome", dome_rail, cp.param)
              /\ cp.name = "entry" => AtParam(cp.bowl_point, "bowl", bowl_rail, 0)
              /\ cp.name = "exit" =>
                    AtParam(cp.bowl_point, "bowl", bowl_rail, ExitAsParam(bowl_exit_param))
              /\ cp.name = "closure" => AtParam(cp.bowl_point, "bowl", bowl_rail, ParamOne)
              /\ (cp.name \notin Landmarks /\ cp.bowl_point # None) =>
                    /\ cp.bowl_point.rail = "bowl"
                    /\ cp.bowl_point.rule = "closest_to_dome"
                    /\ cp.bowl_point.at = cp.dome_point.at
    /\ "closest_point" \in calls =>
          \E i \in 1..Len(all_cps) :
              all_cps[i].dome_point # None /\ all_cps[i].name \notin Landmarks

\* a run that resolved entry, A, an intermediate, exit and closure and
\* returned a surface
C20_Witness ==
    /\ Returned
    /\ belt_surface = "swept"
    /\ inputs.include_A
    /\ inputs.intermediate_sections = 1
    /\ "closest_point" \in calls
    /\ \A i \in 1..Len(all_cps) : all_cps[i].bowl_point # None
    /\ Find(all_cps, "A").bowl_point.rule = "closest_to_dome"
    /\ Find(all_cps, "exit").bowl_point.rule = "at_param"
    /\ Named(all_cps, "closure") # {}

(***************************************************************************)
(* Claims on the entry and exit of find_yz_plane_intersections             *)
(***************************************************************************)
\* the Y of the points a result is chosen from
CrossingYs(events) == {events[k].PointA.Y : k \in {j \in 1..Len(events) : events[j].IsPoint}}
SampleYs(samples, ks) == {samples[k].point.Y : k \in ks}
Greatest(ys) == CHOOSE y \in ys : \A z \in ys : z <= y
Least(ys) == CHOOSE y \in ys : \A z \in ys : y <= z

\* C21: every result of find_yz_plane_intersections has as entry the
\* crossing of greatest Y and as exit the crossing of least Y, so that
\* entry.Y >= exit.Y.  The sampling fallback is used only when the kernel
\* reports no event: it takes 36 samples, keeps those with |X| below the
\* threshold when there are at least two of them and all 36 otherwise, and
\* returns the samples of greatest and least Y.
C21_EntryAboveExit ==
    (yz.stage = "returned" /\ yz.result # None) =>
        LET samples == SampledPoints(yz.curve)
            near == {k \in 1..Len(samples) : Abs(samples[k].point.X) < x_threshold}
            kept == IF Cardinality(near) >= 2 THEN near ELSE 1..Len(samples)
            ys == IF Len(yz.intersections) = 0 THEN SampleYs(samples, kept)
                  ELSE CrossingYs(yz.intersections)
        IN  /\ Len(samples) = 36
            /\ yz.result.entry.point.Y = Greatest(ys)
            /\ yz.result.exit.point.Y = Least(ys)
            /\ yz.result.entry.point.Y >= yz.result.exit.point.Y
            /\ Len(yz.intersections) = 0 =>
                  /\ \E k \in kept : samples[k] = yz.result.entry
                  /\ \E k \in kept : samples[k] = yz.result.exit
            /\ Len(yz.intersections) > 0 =>
                  /\ \E k \in 1..Len(yz.intersections) :
                        /\ yz.intersections[k].IsPoint
                        /\ yz.intersections[k].ParameterA = yz.result.entry.param
                  /\ \E k \in 1..Len(yz.intersections) :
                        /\ yz.intersections[k].IsPoint
                        /\ yz.intersections[k].ParameterA = yz.result.exit.param

\* the fallback on a curve with exactly two samples near the plane, neither
\* of them the highest or the lowest sample of the curve
C21_Witness ==
    /\ yz.stage = "returned"
    /\ yz.curve # NoCurve
    /\ Len(yz.intersections) = 0
    /\ yz.result # None
    /\ yz.result.entry.point.Y > yz.result.exit.point.Y
    /\ yz.result.entry.point.Y < HalfWidth
    /\ Abs(yz.result.entry.point.X) < x_threshold

(***************************************************************************)
(* Claims on the list handed to the loft                                   *)
(***************************************************************************)
\* STEP 7 built every cross-section and the run went on to the loft
SectionsBuilt == pc \in {"step8", "step9"} \/ (pc = "done" /\ "sweep" \in calls)

AllButLast(sections) == SubSeq(sections, 1, Len(sections) - 1)

\* C22: when more than one cross-section was built and the dome-side points
\* of the first and the last are closer than ten times the tolerance,
\* exactly the last cross-section is removed from the list handed to the
\* loft; otherwise the list is handed over unchanged.  The order of the
\* others is kept and debug_curves holds every built cross-section, a
\* dropped one included.
C22_DuplicateClosureDropped ==
    SectionsBuilt =>
        LET n == Len(cross_sections)
            first_start == Find(all_cps, cross_sections[1]).dome_point
            last_start == Find(all_cps, cross_sections[n]).dome_point
            reported_close == HasMsg("DEBUG", "Removed duplicate closure curve")
        IN  /\ debug_curves = cross_sections
            /\ n >= 1
            /\ (n > 1 /\ (first_start = last_start \/ reported_close)) =>
                  cross_sections_for_sweep = AllButLast(cross_sections)
            /\ (n <= 1 \/ (first_start # last_start /\ ~reported_close)) =>
                  cross_sections_for_sweep = cross_sections
            /\ reported_close => n > 1
            /\ (n > 1 /\ ~reported_close) => HasMsg("DEBUG", "No duplicate detected")

\* closed rails, entry .. closure built, the closure section dropped for the
\* loft and kept in debug_curves
C22_Witness ==
    /\ Returned
    /\ belt_surface = "swept"
    /\ dome_rail.closed
    /\ Len(cross_sections) >= 3
    /\ cross_sections[Len(cross_sections)] = "closure"
    /\ cross_sections_for_sweep = AllButLast(cross_sections)
    /\ debug_curves[Len(debug_curves)] = "closure"

(***************************************************************************)
(* Claims on the perpendicular fallback                                    *)
(***************************************************************************)
\* the distance the vectors of a control point are scaled by
DistanceUsed(name) == IF name \in zero_distance_at THEN "1.0" ELSE "measured"

\* the vector of one side is the vertical fallback of that side: 0.3 (in
\* 1/100 of the value grid) times the local distance, not rotated
IsFallback(vector, direction, name) ==
    /\ vector.kind = "vector"
    /\ vector.base = direction
    /\ vector.angle = 0
    /\ vector.factor = 30 * ValueScale
    /\ vector.distance = DistanceUsed(name)

\* the run went on after the control point of that name
WentOnAfter(name) ==
    /\ Find(all_cps, name).dome_vector.kind = "vector"
    /\ Find(all_cps, name).bowl_vector.kind = "vector"
    /\ pc = "done" =>
          /\ "bezier" \in calls
          /\ \A i \in 1..Len(all_cps) : all_cps[i].dome_point # None
    /\ SectionsBuilt => \E i \in 1..Len(cross_sections) : cross_sections[i] = name

\* C23: when the perpendicular cannot be computed for one side of a control
\* point the run is not aborted: a WARNING naming the point is appended,
\* that side's vector is the vertical fallback (dome up, bowl down) scaled
\* by 0.3 times the local distance, the other side and the later control
\* points are processed and a cross-section is built for the point.
C23_PerpendicularFallback ==
    /\ \A i \in 1..Len(warnings) :
          /\ (warnings[i].level = "WARNING"
              /\ warnings[i].text = "Could not calculate dome vector for") =>
                /\ IsFallback(Find(all_cps, warnings[i].name).dome_vector, "up",
                              warnings[i].name)
                /\ WentOnAfter(warnings[i].name)
          /\ (warnings[i].level = "WARNING"
              /\ warnings[i].text = "Could not calculate bowl vector for") =>
                /\ IsFallback(Find(all_cps, warnings[i].name).bowl_vector, "down",
                              warnings[i].name)
                /\ WentOnAfter(warnings[i].name)
    /\ \A i \in 1..Len(all_cps) :
          /\ (all_cps[i].dome_vector # None /\ all_cps[i].dome_vector.base # "perpendicular") =>
                \E j \in 1..Len(warnings) :
                    warnings[j] = Msg("WARNING", "Could not calculate dome vector for",
                                      all_cps[i].name)
          /\ (all_cps[i].bowl_vector # None /\ all_cps[i].bowl_vector.base # "perpendicular") =>
                \E j \in 1..Len(warnings) :
                    warnings[j] = Msg("WARNING", "Could not calculate bowl vector for",
                                      all_cps[i].name)

\* the bowl perpendicular failed at the entry and the run returned a surface
\* lofted through all the control points
C23_Witness ==
    /\ Returned
    /\ belt_surface = "swept"
    /\ HasMsg("WARNING", "Could not calculate bowl vector for")
    /\ Find(all_cps, "entry").bowl_vector.base = "down"
    /\ Find(all_cps, "entry").dome_vector.base = "perpendicular"
    /\ Len(cross_sections) = Len(all_cps)


(***************************************************************************)
(* C24: get_perpendicular_to_trim returns the candidate (normal x tangent) *)
(* unchanged when more of the three test offsets are exterior than         *)
(* interior, or when the counts are tied and the candidate's dot product   *)
(* with the direction to the bounding-box center is negative, and the      *)
(* negated candidate in every other case; on a tie the result has no       *)
(* positive component toward the center.                                   *)
(***************************************************************************)
Classified(relation) == {k \in 1..TestOffsets : perp.relations[k] = relation}

PerpReturned == perp.stage = "returned" /\ perp.result # None

C24_OutwardDecision ==
    PerpReturned =>
        LET outside == Cardinality(Classified("Exterior"))
            inside  == Cardinality(Classified("Interior"))
            keeps   == \/ outside > inside
                       \/ outside = inside /\ perp.alignment_with_center < 0
        IN  /\ perp.result.along_candidate = (IF keeps THEN 1 ELSE -1)
            /\ outside > inside => perp.result.along_candidate = 1
            /\ inside > outside => perp.result.along_candidate = -1
            /\ outside = inside =>
                   perp.result.along_candidate * perp.alignment_with_center <= 0

C24_Witness ==
    /\ PerpReturned
    /\ Cardinality(Classified("Exterior")) = 1
    /\ Cardinality(Classified("Interior")) = 1
    /\ perp.alignment_with_center > 0
    /\ perp.result.along_candidate = -1


(***************************************************************************)
(* C26: on a surface with a face, extract_trim_curve returns the 3D curve  *)
(* of the first loop tagged outer whenever there is one, whatever the      *)
(* lengths; without a tagged loop it returns the curve of the first loop   *)
(* of greatest positive 3D length; it returns no curve when there is no    *)
(* loop or no loop gives a curve of positive length; the surface handed in *)
(* is read only.                                                           *)
(***************************************************************************)
Extracted == extraction.stage = "over" /\ extraction.result.outcome = "returned"

FaceLoops == extraction.brep.Faces[1].Loops

TaggedOuter == {k \in 1..Len(FaceLoops) : FaceLoops[k].LoopType = "Outer"}

WithLength ==
    {k \in 1..Len(FaceLoops) :
        FaceLoops[k].To3dCurve # None /\ FaceLoops[k].To3dCurve.length > 0}

Longest == {k \in WithLength :
               \A j \in WithLength :
                   FaceLoops[j].To3dCurve.length <= FaceLoops[k].To3dCurve.length}

RebuildAttempted == "rebuild" \in calls

LastWarning == warnings[Len(warnings)]

C25_RebuildNonFatal ==
    /\ RebuildAttempted =>
           /\ Returned
           /\ "sweep" \in calls
           /\ HasMsg("SUCCESS", "Surface created")
           /\ inputs.rebuild_tolerance > 0
           /\ belt_surface \in {"swept", "rebuilt"}
           /\ belt_surface = "rebuilt" <=> LastWarning.text = "Surface rebuilt successfully"
           /\ HasMsg("WARNING", "Surface rebuild failed") => belt_surface = "swept"
           /\ rebuild_args[1] = 3
           /\ rebuild_args[2] = 3
           /\ \E num_u_pts \in PointCounts : rebuild_args[3] = num_u_pts + num_u_pts \div 2
           /\ \E num_v_pts \in PointCounts : rebuild_args[4] = num_v_pts + num_v_pts \div 2
    /\ ~RebuildAttempted => rebuild_args = <<>> /\ belt_surface # "rebuilt"
    /\ Returned /\ HasMsg("SUCCESS", "Surface created") /\ inputs.rebuild_tolerance > 0 =>
           RebuildAttempted

\* the rebuild raised and the lofted surface is the one returned
C25_Witness ==
    /\ Returned
    /\ RebuildAttempted
    /\ HasMsg("WARNING", "Surface rebuild failed")
    /\ belt_surface = "swept"
    /\ rebuild_args = <<3, 3, 7, 6>>


(***************************************************************************)
(* C27: every control point of the planner has its param in [0,1]; A and   *)
(* B lie in [0, exit param], A_mirror and B_mirror in [exit param, 1]; the *)
(* intermediates of a non-wrapping pair lie between the params of its two  *)
(* primaries; the value computed for a wrapping pair is within             *)
(* [param of the first, 1.0] before any clamping, so that the clamping     *)
(* branches are never taken.                                               *)
(***************************************************************************)
ExitParamOfRun == dome_exit_param * PosUnit * TScale

InUnitRange(cps) == \A c \in 1..Len(cps) : cps[c].param >= 0 /\ cps[c].param <= ParamOne

C27_ParamsInRange ==
    Planned =>
        LET n == inputs.intermediate_sections IN
        /\ InUnitRange(primary_cps)
        /\ InUnitRange(merged_cps)
        /\ InUnitRange(all_cps)
        /\ \A c \in 1..Len(primary_cps) :
              /\ primary_cps[c].name \in {"A", "B"} =>
                     primary_cps[c].param <= ExitParamOfRun
              /\ primary_cps[c].name \in {"A_mirror", "B_mirror"} =>
                     primary_cps[c].param >= ExitParamOfRun
        /\ \A k \in 1..Len(primary_cps), i \in 1..n :
              LET cp == Find(merged_cps, IntermediateName(k, i))
                  p1 == PairFrom(k).param
                  p2 == PairTo(k).param
                  unclamped == p1 + ((ParamOne - p1) \div (n + 1)) * i
              IN  /\ p2 >= p1 => cp.param >= p1 /\ cp.param <= p2
                  /\ p2 < p1 =>
                        /\ unclamped >= p1
                        /\ unclamped <= ParamOne
                        /\ cp.param = unclamped

\* both optional points strictly inside the first half, a wrapping last pair
\* with MaxInter intermediates
C27_Witness ==
    /\ Planned
    /\ inputs.include_A /\ inputs.include_B
    /\ inputs.A_position > 0 /\ inputs.A_position < PosUnit
    /\ inputs.B_position > inputs.A_position
    /\ inputs.intermediate_sections = MaxInter
    /\ ExitParamOfRun > 0 /\ ExitParamOfRun < ParamOne
    /\ Find(primary_cps, "B").param > Find(primary_cps, "A").param
    /\ Find(primary_cps, "B").param < ExitParamOfRun
    /\ PairTo(Len(primary_cps)).param < PairFrom(Len(primary_cps)).param


(***************************************************************************)
(* C28: an ERROR entry is terminal: when the warnings of a returned run    *)
(* hold an entry of level ERROR the returned surface is null.              *)
(***************************************************************************)
HasError == \E i \in 1..Len(warnings) : warnings[i].level = "ERROR"

C28_ErrorTerminal == Returned /\ HasError => belt_surface = "None"


(***************************************************************************)
(* C29: the last point of the planner's final list has the angles and      *)
(* magnitudes of entry and is the closure point, whose bowl-side point is  *)
(* taken on the bowl rail at 1.0 and not by closest-point projection.      *)
(***************************************************************************)
LastPlanned == all_cps[Len(all_cps)]

C29_EndsOnEntryProfile ==
    Planned =>
        /\ HasValsOf(LastPlanned, inputs.vals.entry)
        /\ LastPlanned.name = "closure"


(***************************************************************************)
(* C30: with both A and B included, 0 < A_position < B_position < 1 and    *)
(* 0 < exit parameter < 1, the sorted primaries are entry, A, B, exit,     *)
(* A_mirror, B_mirror: the mirrors keep the order of their originals, and  *)
(* with the two positions swapped the order is swapped in both halves.     *)
(***************************************************************************)
PrimariesBuilt == pc \in {"step5", "step6"}

BothInside ==
    /\ inputs.include_A /\ inputs.include_B
    /\ inputs.A_position > 0 /\ inputs.A_position < PosUnit
    /\ inputs.B_position > 0 /\ inputs.B_position < PosUnit
    /\ dome_exit_param > 0 /\ dome_exit_param < ExitUnit

C30_PrimaryOrder ==
    PrimariesBuilt /\ BothInside =>
        /\ inputs.A_position < inputs.B_position =>
               NamesOf(primary_cps) = <<"entry", "A", "B", "exit", "A_mirror", "B_mirror">>
        /\ inputs.B_position < inputs.A_position =>
               NamesOf(primary_cps) = <<"entry", "B", "A", "exit", "B_mirror", "A_mirror">>
        /\ inputs.A_position # inputs.B_position =>
               \A i \in 1..(Len(primary_cps) - 1) :
                   primary_cps[i].param < primary_cps[i + 1].param

C30_Witness ==
    /\ PrimariesBuilt
    /\ BothInside
    /\ inputs.A_position < inputs.B_position
    /\ dome_exit_param * 5 = ExitUnit * 2
    /\ Len(primary_cps) = 6
    /\ primary_cps[5].name = "A_mirror"
    /\ primary_cps[5].param < primary_cps[6].param

=============================================================================
